---------------------------- MODULE Spec2Model ----------------------------
(***************************************************************************)
(* A model of the vsfs image engine (repr.rs, logic.rs), the filesystem    *)
(* layer on top of it (vsfs.rs), the handle/sharing manager (rw.rs) and    *)
(* the API that ties them together (vsfs_vfs.rs).                          *)
(*                                                                         *)
(* The image is kept at the granularity the code works at:                 *)
(*   - the two bitmaps as the sets of bits that are 1,                     *)
(*   - the index region as its 32-bit words (an index block is a union of  *)
(*     32 inodes and of 1024 block numbers, so inode fields and indirect   *)
(*     slots are two views of the same words),                             *)
(*   - the data region as its bytes.                                       *)
(* Words and bytes that are 0 are left out of the functions that hold      *)
(* them, so that an image with a few small files is a small value.         *)
(***************************************************************************)
EXTENDS Integers, Sequences, FiniteSets, TLC

VARIABLES
    layout,     \* field order the compiler gave INode (repr.rs leaves it open)
    checked,    \* TRUE: the build panics on integer overflow; FALSE: it wraps
    status,     \* "new" before init, then "ok", "panic" (abnormal termination) or "hang" (a loop that makes no progress)
    i_bitmaps,  \* Disk.i_bitmaps: the set of bits that are 1
    d_bitmaps,  \* Disk.d_bitmaps: the set of bits that are 1
    i_blocks,   \* Disk.i_blocks: word address -> non-zero 32-bit word
    d_blocks,   \* Disk.d_blocks: byte address -> non-zero byte
    entries,    \* RWManager.open_table.entries
    rwmap,      \* RWManager.file_rw_table.map
    files,      \* the VerySimpleFile values the caller holds
    clock,      \* what utils::time() returns
    call,       \* the last call made
    ret,        \* what the last call returned
    nops        \* number of calls made so far

vars == <<layout, checked, status, i_bitmaps, d_bitmaps, i_blocks, d_blocks, entries, rwmap, files, clock, call, ret, nops>>

---------------------------------------------------------------------------
(* repr.rs: the constants of the image *)

SIZE == 4096 * 16
INDEX_BLOCK_COUNT == 1024 * 4
INDEX_BITMAP_BLOCK_COUNT == INDEX_BLOCK_COUNT \div 1024
DATA_BITMAP_BLOCK_COUNT == 2
DATA_BLOCK_COUNT == SIZE - 1 - INDEX_BLOCK_COUNT - INDEX_BITMAP_BLOCK_COUNT - DATA_BITMAP_BLOCK_COUNT
ALIGN_SIZE == 4096
DIRECT_BLOCK_COUNT == 12
\* BitmapBlock.bitmaps is [u32; 1024], IBlock.idx is [u32; 1024]
BITMAP_WORDS == 1024
IDX_WORDS == 1024
\* DataBlock.data is [u8; 4096]
BLOCK_BYTES == 4096
\* IBlock.inodes is [INode; 32]; an INode is 128 bytes, that is 32 words
INODES_PER_BLOCK == 32
INODE_WORDS == 32

---------------------------------------------------------------------------
(* Bounds of the model *)

\* calls made in one run
MaxOps == 4
\* records the open table may hold
MaxHandles == 2
\* path length (number of segments) the caller uses
MaxDepth == 1
\* calls made in one run that only creates, opens and closes
MaxShareOps == 6
\* records the open table may hold in such a run
MaxShareHandles == 3
\* calls made in one run that only makes and removes directories and files
MaxDirOps == 3
\* path length the caller uses in such a run
MaxDirDepth == 2
\* calls made in one run in which the caller presents handles again after close
MaxHandleOps == 4
\* records the open table may hold in such a run
MaxHandleRecords == 2
\* seconds that pass during a run in which the clock is seen to advance
MaxTicks == 1
\* calls made in one run that writes and reads one large file
MaxRWOps == 6
\* calls made in one run that fills one directory with three entries
MaxOrderOps == 4
\* calls made in one run that gives the root an entry with a long name
MaxTripOps == 2
\* calls made in one run that sizes the block lists of two files
MaxEngineOps == 3
\* calls of the bitmap functions in a run of SpecBits
MaxBitOps == 3
\* calls in a run that copies bytes inside the contract of read_data and write_data
MaxCopyOps == 5
\* calls of the allocator in a run of SpecFit, after the image was set up
MaxFitOps == 3
\* calls in a run of SpecLookup
MaxLookOps == 3
\* calls of the open table's manager in a run of SpecManager
MaxMgrOps == 4
\* characters of a text given to Path::from_str
MaxTextLen == 5
\* segments of a path built by Path::push, and characters of one segment
MaxSegs == 2
MaxSegLen == 2

---------------------------------------------------------------------------
(* Generic helpers *)

Min(a, b) == IF a < b THEN a ELSE b

\* LET v == e IN F(v), with e evaluated once however often F uses v
Bind(e, F(_)) == CHOOSE r \in {F(v) : v \in {e}} : TRUE

\* A sparse map read: what is not stored is 0.
Get(f, k) == IF k \in DOMAIN f THEN f[k] ELSE 0

\* A sparse map write: a 0 is not stored.
Put(f, k, v) == IF v = 0 THEN [x \in DOMAIN f \ {k} |-> f[x]] ELSE [x \in DOMAIN f \cup {k} |-> IF x = k THEN v ELSE f[x]]

EmptyMap == [x \in {} |-> 0]

\* An image value threaded through the engine's functions. st is "ok" until
\* a function panics or hangs; from then on the value is passed through.
Disk == [st |-> status, ib |-> i_bitmaps, db |-> d_bitmaps, iw |-> i_blocks, dw |-> d_blocks]

Fail(D, how) == [D EXCEPT !.st = how]

---------------------------------------------------------------------------
(* logic.rs: bitmaps *)

\* get_state / set_state: where bit `index` lives
BitBlock(index) == index \div (ALIGN_SIZE * 32)
BitWord(index) == (index % (ALIGN_SIZE * 32)) \div 32
BitBit(index) == index % 32
\* the indexing bitmap_blocks[block_index].bitmaps[u32_index] is bounds-checked
BitInside(nblocks, index) == BitBlock(index) < nblocks /\ BitWord(index) < BITMAP_WORDS
\* the bit as a position in the region: 32768 bits per block, 32 per word
BitPos(index) == (BitBlock(index) * BITMAP_WORDS + BitWord(index)) * 32 + BitBit(index)

get_state(bitmap, index) == BitPos(index) \in bitmap

set_state(bitmap, index, state) == IF state THEN bitmap \cup {BitPos(index)} ELSE bitmap \ {BitPos(index)}

\* get_block_state / set_block_state: where word `index` lives
WordBlock(index) == index \div ALIGN_SIZE
WordWord(index) == index % ALIGN_SIZE
WordInside(nblocks, index) == WordBlock(index) < nblocks /\ WordWord(index) < BITMAP_WORDS
WordBits(index) == { (WordBlock(index) * BITMAP_WORDS + WordWord(index)) * 32 + b : b \in 0..31 }

\* the word, as the set of its bits that are 1: {} is 0, WordBits is u32::MAX
get_block_state(bitmap, index) == bitmap \cap WordBits(index)

set_block_state(bitmap, index, state) == IF state THEN bitmap \cup WordBits(index) ELSE bitmap \ WordBits(index)

\* the loop of get_free_item from index i on: the scan stops at the first
\* index that is at hi (None), off the bitmap (a panic) or clear (Some): -2,
\* -1 or the index. The index is named by what it is, the first at which the
\* loop stops, so that a scan of a full bitmap is one step of evaluation.
FreeItemFrom(bitmap, nblocks, hi, i) ==
    LET Stops(k) == k >= hi \/ ~BitInside(nblocks, k) \/ ~get_state(bitmap, k)
    IN  IF i >= hi THEN -2
        ELSE Bind(CHOOSE k \in i..hi : Stops(k) /\ \A j \in i..(k - 1) : ~Stops(j), LAMBDA k :
             IF k >= hi THEN -2 ELSE IF ~BitInside(nblocks, k) THEN -1 ELSE k)

get_free_item(bitmap, nblocks, hi) == FreeItemFrom(bitmap, nblocks, hi, 0)

\* the loop of get_free_block from word i on: the same for the first word that is 0
FreeBlockFrom(bitmap, nblocks, hi, i) ==
    LET Stops(k) == k >= hi \/ ~WordInside(nblocks, k) \/ get_block_state(bitmap, k) = {}
    IN  IF i >= hi THEN -2
        ELSE Bind(CHOOSE k \in i..hi : Stops(k) /\ \A j \in i..(k - 1) : ~Stops(j), LAMBDA k :
             IF k >= hi THEN -2 ELSE IF ~WordInside(nblocks, k) THEN -1 ELSE k)

get_free_block(bitmap, nblocks, hi) == FreeBlockFrom(bitmap, nblocks, hi, 0)

ALL_INODE_RANGE == INDEX_BLOCK_COUNT * 32
ALL_INDEX_BLOCK_RANGE == INDEX_BLOCK_COUNT
ALL_DATA_BLOCK_RANGE == DATA_BLOCK_COUNT

---------------------------------------------------------------------------
(* repr.rs: INode and IBlock, as views of the words of the index region *)

\* INode is declared without repr(C), so the compiler orders its fields. The
\* two orders it produces for this struct: the 4-byte fields in declaration
\* order, or the array first; is_dir, the only 1-byte field, comes last.
Layouts == {"declared", "array_first"}

Off(f) ==
    IF layout = "declared"
    THEN CASE f = "size" -> 0 [] f = "atime" -> 1 [] f = "ctime" -> 2 [] f = "mtime" -> 3 [] f = "dtime" -> 4
           [] f = "block_count" -> 5 [] f = "block_direct" -> 6 [] f = "block_indirect" -> 18 [] f = "is_dir" -> 19
    ELSE CASE f = "block_direct" -> 0 [] f = "size" -> 12 [] f = "atime" -> 13 [] f = "ctime" -> 14 [] f = "mtime" -> 15
           [] f = "dtime" -> 16 [] f = "block_count" -> 17 [] f = "block_indirect" -> 18 [] f = "is_dir" -> 19

\* get_inode / get_inode_mut: inode_blocks[inum / 32].inodes[inum % 32]
InodeInside(inum) == inum \div INODES_PER_BLOCK < INDEX_BLOCK_COUNT
InodeBase(inum) == (inum \div INODES_PER_BLOCK) * IDX_WORDS + (inum % INODES_PER_BLOCK) * INODE_WORDS
FieldAddr(inum, f) == InodeBase(inum) + Off(f)
DirectAddr(inum, i) == InodeBase(inum) + Off("block_direct") + i

\* get_indirect_dnum / get_indirect_dnum_mut: inode_blocks[inum].idx[index];
\* the first argument is used as the number of an index block
IdxInside(block, index) == block < INDEX_BLOCK_COUNT /\ index < IDX_WORDS
IdxAddr(block, index) == block * IDX_WORDS + index

Field(iw, inum, f) == Get(iw, FieldAddr(inum, f))

\* is_dir is one byte; the other three bytes of its word are padding
IsDir(iw, inum) == Field(iw, inum, "is_dir") % 256 # 0

SetField(D, inum, f, v) == IF D.st # "ok" THEN D ELSE [D EXCEPT !.iw = Put(@, FieldAddr(inum, f), v)]

\* Store several words at once; vals maps word addresses to values.
WriteWords(iw, vals) ==
    [a \in (DOMAIN iw \ DOMAIN vals) \cup {x \in DOMAIN vals : vals[x] # 0} |-> IF a \in DOMAIN vals THEN vals[a] ELSE iw[a]]

\* `*inode = INode { size: 0, is_dir, atime: t, ctime: t, mtime: t, block_count: 0, .. }`
\* and `*inode = zeroed()`: the 20 words that hold fields are stored.
InodeImage(inum, isdir, t) ==
    [a \in InodeBase(inum)..(InodeBase(inum) + 19) |->
        IF a = FieldAddr(inum, "is_dir") THEN (IF isdir THEN 1 ELSE 0)
        ELSE IF a \in {FieldAddr(inum, "atime"), FieldAddr(inum, "ctime"), FieldAddr(inum, "mtime")} THEN t
        ELSE 0]

---------------------------------------------------------------------------
(* logic.rs: the block list of an inode *)

\* a lookup that reads the indirect table one entry too far, which the properties of the lookup must tell from the code's
DnumAddrShifted(iw, inum, index) ==
    IF ~InodeInside(inum) THEN -1
    ELSE IF index >= Field(iw, inum, "block_count") THEN -1
    ELSE IF index < DIRECT_BLOCK_COUNT THEN DirectAddr(inum, index)
    ELSE IF index < DIRECT_BLOCK_COUNT + 1024
         THEN IdxAddr(Field(iw, inum, "block_indirect"), index - DIRECT_BLOCK_COUNT + 1)
    ELSE -1

\* get_dnum / get_dnum_mut: the word that holds the number of logical block
\* `index` of inode `inum`; -1 when the function panics.
DnumAddr(iw, inum, index) ==
    IF ~InodeInside(inum) THEN -1
    ELSE IF index >= Field(iw, inum, "block_count") THEN -1
    ELSE IF index < DIRECT_BLOCK_COUNT THEN DirectAddr(inum, index)
    ELSE IF index < DIRECT_BLOCK_COUNT + 1024
         THEN IF IdxInside(Field(iw, inum, "block_indirect"), index - DIRECT_BLOCK_COUNT)
              THEN IdxAddr(Field(iw, inum, "block_indirect"), index - DIRECT_BLOCK_COUNT)
              ELSE -1
    ELSE -1

\* get_dnum: [st, dnum], st "panic" for an index the function rejects
get_dnum(iw, inum, index) ==
    Bind(DnumAddr(iw, inum, index), LAMBDA addr :
         IF addr < 0 THEN [st |-> "panic", dnum |-> 0] ELSE [st |-> "ok", dnum |-> Get(iw, addr)])

\* transform_pos: [st, dnum, offset]
transform_pos(iw, inum, pos) ==
    IF ~InodeInside(inum) THEN [st |-> "panic", dnum |-> 0, offset |-> 0]
    ELSE IF pos \div 4096 >= Field(iw, inum, "block_count") \/ pos \div 4096 >= Field(iw, inum, "size") THEN [st |-> "panic", dnum |-> 0, offset |-> 0]
    ELSE Bind(get_dnum(iw, inum, pos \div 4096), LAMBDA r : [st |-> r.st, dnum |-> r.dnum, offset |-> pos % 4096])

\* the loop of the direct branch of extend_data_block_of_inode
RECURSIVE ExtendDirect(_, _, _, _)
ExtendDirect(D, inum, i, count) ==
    IF D.st # "ok" \/ i >= count THEN D
    ELSE Bind(get_free_item(D.db, DATA_BITMAP_BLOCK_COUNT, ALL_DATA_BLOCK_RANGE), LAMBDA dnum :
         IF dnum < 0 THEN Fail(D, "panic")
         ELSE Bind([D EXCEPT !.db = set_state(@, dnum, TRUE), !.iw = Put(@, DirectAddr(inum, i), dnum)], LAMBDA D1 :
              ExtendDirect(D1, inum, i + 1, count)))

\* "申请一个间接块": reserve a free word of the inode bitmap and store it, times 32, in block_indirect
ReserveIndirect(D, inum) ==
    IF D.st # "ok" THEN D
    ELSE Bind(get_free_block(D.ib, INDEX_BITMAP_BLOCK_COUNT, ALL_INDEX_BLOCK_RANGE), LAMBDA block_id :
         IF block_id < 0 THEN Fail(D, "panic")
         ELSE [D EXCEPT !.ib = set_block_state(@, block_id, TRUE), !.iw = Put(@, FieldAddr(inum, "block_indirect"), block_id * 32)])

\* the loop of the indirect branch; indirect is the block_indirect of the cloned inode
RECURSIVE ExtendIndirect(_, _, _, _)
ExtendIndirect(D, indirect, i, count) ==
    IF D.st # "ok" \/ i >= count THEN D
    ELSE Bind(get_free_item(D.db, DATA_BITMAP_BLOCK_COUNT, ALL_DATA_BLOCK_RANGE), LAMBDA dnum :
         IF dnum < 0 THEN Fail(D, "panic")
         ELSE IF ~IdxInside(indirect, i - DIRECT_BLOCK_COUNT) THEN Fail(D, "panic")
         ELSE Bind([D EXCEPT !.db = set_state(@, dnum, TRUE), !.iw = Put(@, IdxAddr(indirect, i - DIRECT_BLOCK_COUNT), dnum)], LAMBDA D1 :
              ExtendIndirect(D1, indirect, i + 1, count)))

\* the direct branch, also the recursive call "直接的扩充到 DIRECT_BLOCK_COUNT"
ExtendToDirect(D, inum, count) ==
    Bind(ExtendDirect(D, inum, Field(D.iw, inum, "block_count"), count), LAMBDA D1 : SetField(D1, inum, "block_count", count))

\* the indirect branch once the inode has its direct blocks
ExtendFromDirect(D, inum, count) ==
    Bind(Field(D.iw, inum, "block_indirect"), LAMBDA indirect :
    Bind(Field(D.iw, inum, "block_count"), LAMBDA from :
    Bind(ExtendIndirect(D, indirect, from, count), LAMBDA D1 : SetField(D1, inum, "block_count", count))))

extend_data_block_of_inode(D, inum, count) ==
    IF D.st # "ok" THEN D
    ELSE IF ~InodeInside(inum) THEN Fail(D, "panic")
    ELSE IF Field(D.iw, inum, "block_count") >= count THEN D
    ELSE IF count <= DIRECT_BLOCK_COUNT THEN ExtendToDirect(D, inum, count)
    ELSE IF Field(D.iw, inum, "block_count") < DIRECT_BLOCK_COUNT
         THEN Bind(ExtendToDirect(D, inum, DIRECT_BLOCK_COUNT), LAMBDA D1 :
              Bind(ReserveIndirect(D1, inum), LAMBDA D2 :
              IF D2.st # "ok" THEN D2 ELSE ExtendFromDirect(D2, inum, count)))
    ELSE ExtendFromDirect(D, inum, count)

\* the loop of shrink_data_block_of_inode: free the block in slot i and zero the slot
RECURSIVE ShrinkSlots(_, _, _, _)
ShrinkSlots(D, inum, i, old_count) ==
    IF D.st # "ok" \/ i >= old_count THEN D
    ELSE Bind(DnumAddr(D.iw, inum, i), LAMBDA addr :
         IF addr < 0 THEN Fail(D, "panic")
         ELSE IF ~BitInside(DATA_BITMAP_BLOCK_COUNT, Get(D.iw, addr)) THEN Fail(D, "panic")
         ELSE Bind([D EXCEPT !.db = set_state(@, Get(D.iw, addr), FALSE), !.iw = Put(@, addr, 0)], LAMBDA D1 :
              ShrinkSlots(D1, inum, i + 1, old_count)))

\* "如果之前存在 indirect，之后不存在，则释放掉 indirect"; indirect is the block_indirect of the cloned inode
ReleaseIndirect(D, inum, indirect) ==
    IF D.st # "ok" THEN D
    ELSE IF ~WordInside(INDEX_BITMAP_BLOCK_COUNT, indirect) THEN Fail(D, "panic")
    ELSE IF get_block_state(D.ib, indirect) \notin {{}, WordBits(indirect)} THEN Fail(D, "panic")
    ELSE [D EXCEPT !.ib = set_block_state(@, indirect, FALSE), !.iw = Put(@, FieldAddr(inum, "block_indirect"), 0)]

shrink_data_block_of_inode(D, inum, count) ==
    IF D.st # "ok" THEN D
    ELSE IF ~InodeInside(inum) THEN Fail(D, "panic")
    ELSE IF Field(D.iw, inum, "block_count") <= count THEN D
    ELSE Bind(Field(D.iw, inum, "block_count"), LAMBDA old_count :
         Bind(Field(D.iw, inum, "block_indirect"), LAMBDA indirect :
         Bind(ShrinkSlots(D, inum, count, old_count), LAMBDA D1 :
         Bind(IF count <= DIRECT_BLOCK_COUNT /\ old_count > DIRECT_BLOCK_COUNT THEN ReleaseIndirect(D1, inum, indirect) ELSE D1, LAMBDA D2 :
              SetField(D2, inum, "block_count", count)))))

resize_data_block_of_inode(D, inum, count) ==
    IF D.st # "ok" THEN D
    ELSE IF ~InodeInside(inum) THEN Fail(D, "panic")
    ELSE IF Field(D.iw, inum, "block_count") < count THEN extend_data_block_of_inode(D, inum, count)
    ELSE IF Field(D.iw, inum, "block_count") > count THEN shrink_data_block_of_inode(D, inum, count)
    ELSE D

resize(D, inum, new_size) ==
    Bind(resize_data_block_of_inode(D, inum, (new_size + 4095) \div 4096), LAMBDA D1 : SetField(D1, inum, "size", new_size))

\* the loop of free_inode: clear the data bit of the block in slot i
RECURSIVE FreeSlots(_, _, _, _)
FreeSlots(D, inum, i, old_count) ==
    IF D.st # "ok" \/ i >= old_count THEN D
    ELSE Bind(DnumAddr(D.iw, inum, i), LAMBDA addr :
         IF addr < 0 THEN Fail(D, "panic")
         ELSE IF ~BitInside(DATA_BITMAP_BLOCK_COUNT, Get(D.iw, addr)) THEN Fail(D, "panic")
         ELSE Bind([D EXCEPT !.db = set_state(@, Get(D.iw, addr), FALSE)], LAMBDA D1 :
              FreeSlots(D1, inum, i + 1, old_count)))

\* `if inode.block_indirect != 0 { set_state(index_bitmap_blocks, inode.block_indirect, false) }`
FreeIndirect(D, indirect) ==
    IF D.st # "ok" \/ indirect = 0 THEN D
    ELSE IF ~BitInside(INDEX_BITMAP_BLOCK_COUNT, indirect) THEN Fail(D, "panic")
    ELSE [D EXCEPT !.ib = set_state(@, indirect, FALSE)]

\* `*inode = zeroed(); set_state(index_bitmap_blocks, inum, false)`
FreeBit(D, inum) ==
    IF D.st # "ok" THEN D
    ELSE IF ~BitInside(INDEX_BITMAP_BLOCK_COUNT, inum) THEN Fail(D, "panic")
    ELSE Bind(InodeImage(inum, FALSE, 0), LAMBDA zeroed : [D EXCEPT !.iw = WriteWords(@, zeroed), !.ib = set_state(@, inum, FALSE)])

free_inode(D, inum) ==
    IF D.st # "ok" THEN D
    ELSE IF ~InodeInside(inum) THEN Fail(D, "panic")
    ELSE Bind(Field(D.iw, inum, "block_indirect"), LAMBDA indirect :
         Bind(FreeSlots(D, inum, 0, Field(D.iw, inum, "block_count")), LAMBDA D1 :
         Bind(FreeIndirect(D1, indirect), LAMBDA D2 : FreeBit(D2, inum))))

---------------------------------------------------------------------------
(* logic.rs: bytes of an inode *)

\* get_size_of_data_block, for index < block_count and size > 0
SizeOfDataBlock(iw, inum, index) ==
    IF index = Field(iw, inum, "block_count") - 1 THEN ((Field(iw, inum, "size") - 1) % 4096) + 1 ELSE 4096

\* `min(buf.len() - done, size_of_data - offset)`; the subtraction wraps to a
\* number above every length when the build does not check it
CopyLen(left, size_of_data, offset) == IF size_of_data < offset THEN left ELSE Min(left, size_of_data - offset)

\* One turn of the loop of read_data / write_data at byte `pos` with `left`
\* bytes to go: [st, dnum, offset, len]. st is "panic" when transform_pos,
\* get_dnum, get_data_block, an overflow check or a slice bound ends the
\* call, and "hang" when the turn copies nothing.
CopyStep(D, inum, pos, left) ==
    Bind(DnumAddr(D.iw, inum, pos \div 4096), LAMBDA addr :
    Bind(SizeOfDataBlock(D.iw, inum, pos \div 4096), LAMBDA size_of_data :
    Bind(CopyLen(left, size_of_data, pos % 4096), LAMBDA len :
        IF pos \div 4096 >= Field(D.iw, inum, "block_count") \/ pos \div 4096 >= Field(D.iw, inum, "size") \/ addr < 0
        THEN [st |-> "panic", dnum |-> 0, offset |-> 0, len |-> 0]
        ELSE IF Get(D.iw, addr) >= DATA_BLOCK_COUNT THEN [st |-> "panic", dnum |-> 0, offset |-> 0, len |-> 0]
        ELSE IF checked /\ size_of_data < pos % 4096 THEN [st |-> "panic", dnum |-> 0, offset |-> 0, len |-> 0]
        ELSE IF len = 0 THEN [st |-> "hang", dnum |-> 0, offset |-> 0, len |-> 0]
        ELSE IF (pos % 4096) + len > BLOCK_BYTES THEN [st |-> "panic", dnum |-> 0, offset |-> 0, len |-> 0]
        ELSE [st |-> "ok", dnum |-> Get(D.iw, addr), offset |-> pos % 4096, len |-> len])))

\* `buf[readed..readed + len].copy_from_slice(&data[offset..offset + len])`
Chunk(dw, c) == [k \in 1..c.len |-> Get(dw, c.dnum * BLOCK_BYTES + c.offset + k - 1)]

RECURSIVE ReadLoop(_, _, _, _, _)
ReadLoop(D, inum, start_pos, n, acc) ==
    IF Len(acc) >= n THEN [st |-> "ok", bytes |-> acc]
    ELSE Bind(CopyStep(D, inum, start_pos + Len(acc), n - Len(acc)), LAMBDA c :
         IF c.st # "ok" THEN [st |-> c.st, bytes |-> acc]
         ELSE Bind(acc \o Chunk(D.dw, c), LAMBDA acc1 : ReadLoop(D, inum, start_pos, n, acc1)))

\* read_data: [st, bytes]
read_data(D, inum, start_pos, n) ==
    IF D.st # "ok" THEN [st |-> D.st, bytes |-> <<>>]
    ELSE IF ~InodeInside(inum) THEN [st |-> "panic", bytes |-> <<>>]
    ELSE ReadLoop(D, inum, start_pos, n, <<>>)

\* the turns of the loop of write_data from `written` on, which depend on
\* the inode and not on the bytes stored: [st, chunks], a chunk being the
\* byte address it starts at, its length and the place in buf it copies from
RECURSIVE WriteTurns(_, _, _, _, _, _)
WriteTurns(D, inum, start_pos, n, written, chunks) ==
    IF written >= n THEN [st |-> "ok", chunks |-> chunks]
    ELSE Bind(CopyStep(D, inum, start_pos + written, n - written), LAMBDA c :
         IF c.st # "ok" THEN [st |-> c.st, chunks |-> chunks]
         ELSE Bind(Append(chunks, [base |-> c.dnum * BLOCK_BYTES + c.offset, len |-> c.len, written |-> written]), LAMBDA chunks1 :
              Bind(written + c.len, LAMBDA written1 : WriteTurns(D, inum, start_pos, n, written1, chunks1))))

\* the function f as an explicit table: the comparison makes the model
\* checker compute it once instead of at every application
Table(f) == IF f = f THEN f ELSE f

\* `data[offset..offset + len].copy_from_slice(&buf[written..written + len])`
\* for every chunk in turn: a byte two chunks store has the value of the
\* later one, and a byte that becomes 0 is dropped from the sparse map. The
\* two forms give the same map; the first is the cheaper one for a short
\* write into a large map.
Store(dw, chunks, buf) ==
    LET Hit(a) == {k \in 1..Len(chunks) : a >= chunks[k].base /\ a < chunks[k].base + chunks[k].len}
        Val(a) == Bind(chunks[CHOOSE k \in Hit(a) : \A j \in Hit(a) : j <= k], LAMBDA c : buf[c.written + (a - c.base) + 1])
        New == UNION {chunks[k].base..(chunks[k].base + chunks[k].len - 1) : k \in 1..Len(chunks)}
    IN  IF New = {} THEN dw
        ELSE Bind([a \in New |-> Val(a)], LAMBDA vals :
             IF Len(buf) <= BLOCK_BYTES /\ \A a \in New : vals[a] # 0 THEN Table(vals @@ dw)
             ELSE Table([a \in {x \in DOMAIN dw \cup New : (IF x \in New THEN vals[x] ELSE dw[x]) # 0} |-> IF a \in New THEN vals[a] ELSE dw[a]]))

WriteLoop(D, inum, start_pos, buf, written) ==
    IF D.st # "ok" THEN D
    ELSE Bind(WriteTurns(D, inum, start_pos, Len(buf), written, <<>>), LAMBDA t :
         Bind([D EXCEPT !.dw = Store(@, t.chunks, buf)], LAMBDA D1 :
              IF t.st # "ok" THEN Fail(D1, t.st) ELSE D1))

write_data(D, inum, start_pos, buf) ==
    IF D.st # "ok" THEN D
    ELSE IF ~InodeInside(inum) THEN Fail(D, "panic")
    ELSE WriteLoop(D, inum, start_pos, buf, 0)

write_data_auto_resize(D, inum, start_pos, buf) ==
    IF D.st # "ok" THEN D
    ELSE IF ~InodeInside(inum) THEN Fail(D, "panic")
    ELSE IF start_pos + Len(buf) # Field(D.iw, inum, "size")
         THEN Bind(resize(D, inum, start_pos + Len(buf)), LAMBDA D1 : write_data(D1, inum, start_pos, buf))
         ELSE write_data(D, inum, start_pos, buf)

---------------------------------------------------------------------------
(* logic.rs: DirectoryData and its serde_json encoding *)
(* A byte string is a sequence of numbers 0..255; a name is a byte string. *)

RECURSIVE Digits(_)
Digits(n) == IF n < 10 THEN <<48 + n>> ELSE Digits(n \div 10) \o <<48 + (n % 10)>>

\* {"entries":[   ]}   {"name":"   ","inum":   }   ,
LitOpen == <<123, 34, 101, 110, 116, 114, 105, 101, 115, 34, 58, 91>>
LitClose == <<93, 125>>
LitName == <<123, 34, 110, 97, 109, 101, 34, 58, 34>>
LitInum == <<34, 44, 34, 105, 110, 117, 109, 34, 58>>
LitEnd == <<125>>
LitComma == <<44>>

EncodeEntry(e) == LitName \o e.name \o LitInum \o Digits(e.inum) \o LitEnd

RECURSIVE EncodeEntries(_, _)
EncodeEntries(es, k) ==
    IF k > Len(es) THEN <<>>
    ELSE IF k = Len(es) THEN EncodeEntry(es[k])
    ELSE EncodeEntry(es[k]) \o LitComma \o EncodeEntries(es, k + 1)

\* serde_json::to_vec(&DirectoryData { entries })
to_vec(es) == LitOpen \o EncodeEntries(es, 1) \o LitClose

\* u32::to_le_bytes / u32::from_le_bytes
to_le_bytes(n) == <<n % 256, (n \div 256) % 256, (n \div 65536) % 256, (n \div 16777216) % 256>>
from_le_bytes(b) == b[1] + 256 * b[2] + 65536 * b[3] + 16777216 * b[4]

\* b has lit at position i (1-based)
HasLit(b, i, lit) == i + Len(lit) - 1 <= Len(b) /\ \A k \in 1..Len(lit) : b[i + k - 1] = lit[k]

\* the position of the first byte from i on that is not in `set`, Len(b) + 1 if none
Span(b, i, set) ==
    Bind({j \in i..Len(b) : b[j] \notin set}, LAMBDA others :
         IF others = {} THEN Len(b) + 1 ELSE CHOOSE j \in others : \A k \in others : j <= k)

\* the number the digits b[i..j-1] write
RECURSIVE Number(_, _, _)
Number(b, i, j) == IF i >= j THEN 0 ELSE Number(b, i, j - 1) * 10 + (b[j - 1] - 48)

\* bytes a JSON string holds as they are: no quote, no backslash, no control character
PlainChars == (32..255) \ {34, 92}

NoEntry == [next |-> 0, entry |-> [name |-> <<>>, inum |-> 0]]

\* One entry at position i: [next, entry]; next = 0 when the bytes are not an entry.
\* The numbers of the model stay below 2^31: an inum is read from at most 9 digits
\* (the inums of the image have 6 at most).
ParseEntry(b, i) ==
    IF ~HasLit(b, i, LitName) THEN NoEntry
    ELSE Bind(Span(b, i + Len(LitName), PlainChars), LAMBDA n2 :
         IF ~HasLit(b, n2, LitInum) THEN NoEntry
         ELSE Bind(Span(b, n2 + Len(LitInum), 48..57), LAMBDA d2 :
              IF d2 = n2 + Len(LitInum) \/ (d2 > n2 + Len(LitInum) + 1 /\ b[n2 + Len(LitInum)] = 48) \/ d2 - (n2 + Len(LitInum)) > 9 THEN NoEntry
              ELSE IF ~HasLit(b, d2, LitEnd) THEN NoEntry
              ELSE [next |-> d2 + 1, entry |-> [name |-> SubSeq(b, i + Len(LitName), n2 - 1), inum |-> Number(b, n2 + Len(LitInum), d2)]]))

\* The entries from position i to the closing "]}": [ok, entries].
RECURSIVE ParseEntries(_, _, _)
ParseEntries(b, i, acc) ==
    Bind(ParseEntry(b, i), LAMBDA e :
         IF e.next = 0 THEN [ok |-> FALSE, entries |-> <<>>]
         ELSE IF HasLit(b, e.next, LitClose) /\ e.next + 1 = Len(b) THEN [ok |-> TRUE, entries |-> Append(acc, e.entry)]
         ELSE IF HasLit(b, e.next, LitComma) THEN Bind(Append(acc, e.entry), LAMBDA acc1 : ParseEntries(b, e.next + 1, acc1))
         ELSE [ok |-> FALSE, entries |-> <<>>])

\* serde_json::from_slice::<DirectoryData>, for the encoding to_vec writes
\* (no white space, the keys in this order): [ok, entries]
from_slice(b) ==
    IF ~HasLit(b, 1, LitOpen) THEN [ok |-> FALSE, entries |-> <<>>]
    ELSE IF HasLit(b, Len(LitOpen) + 1, LitClose) /\ Len(b) = Len(LitOpen) + 2 THEN [ok |-> TRUE, entries |-> <<>>]
    ELSE ParseEntries(b, Len(LitOpen) + 1, <<>>)

\* DirectoryData::exists
DirExists(es, name) == \E k \in 1..Len(es) : es[k].name = name

\* read_data_struct::<DirectoryData>: [st, entries]
read_data_struct(D, inum, start_pos) ==
    Bind(read_data(D, inum, start_pos, 4), LAMBDA len_buf :
         IF len_buf.st # "ok" THEN [st |-> len_buf.st, entries |-> <<>>]
         ELSE Bind(read_data(D, inum, start_pos + 4, from_le_bytes(len_buf.bytes)), LAMBDA buf :
              IF buf.st # "ok" THEN [st |-> buf.st, entries |-> <<>>]
              ELSE Bind(from_slice(buf.bytes), LAMBDA parsed :
                   IF ~parsed.ok THEN [st |-> "panic", entries |-> <<>>] ELSE [st |-> "ok", entries |-> parsed.entries])))

write_data_struct_auto_resize(D, inum, start_pos, es) ==
    IF D.st # "ok" THEN D
    ELSE IF ~InodeInside(inum) THEN Fail(D, "panic")
    ELSE Bind(to_vec(es), LAMBDA buf :
         Bind(IF start_pos + 4 + Len(buf) # Field(D.iw, inum, "size") THEN resize(D, inum, start_pos + 4 + Len(buf)) ELSE D, LAMBDA D1 :
         Bind(write_data(D1, inum, start_pos, to_le_bytes(Len(buf))), LAMBDA D2 : write_data(D2, inum, start_pos + 4, buf))))

---------------------------------------------------------------------------
(* path.rs: a Path is the sequence of its segments; a segment is a byte string *)

Root == <<>>
is_root(path) == Len(path) = 0
\* Path::parent / Path::current, for a path that is not the root
parent(path) == SubSeq(path, 1, Len(path) - 1)
current(path) == path[Len(path)]
move_push(path, seg) == Append(path, seg)

\* Path::to_str: "/" and the segments joined by "/"
RECURSIVE to_str(_)
to_str(path) ==
    IF Len(path) = 0 THEN <<47>>
    ELSE IF Len(path) = 1 THEN <<47>> \o path[1]
    ELSE to_str(parent(path)) \o <<47>> \o current(path)

\* the characters check_seg_valid refuses: / \ : * ? " < > |
Forbidden == {47, 92, 58, 42, 63, 34, 60, 62, 124}

\* a check that refuses the empty segment only, which the properties of parsing must tell from the code's
check_seg_nonempty(seg) == Len(seg) > 0

\* Path::check_seg_valid
check_seg_valid(seg) == Len(seg) > 0 /\ \A k \in 1..Len(seg) : seg[k] \notin Forbidden

\* str::split: the pieces of s between the occurrences of sep, from
\* character k on, piece being the characters read since the last sep;
\* the empty text has one empty piece
RECURSIVE SplitFrom(_, _, _, _)
SplitFrom(s, sep, k, piece) ==
    IF k > Len(s) THEN <<piece>>
    ELSE IF s[k] = sep THEN <<piece>> \o SplitFrom(s, sep, k + 1, <<>>)
    ELSE SplitFrom(s, sep, k + 1, Append(piece, s[k]))

\* Path::from_str: [res, val], "Some" with the segments or "None"
from_str(s) ==
    IF ~(Len(s) > 0 /\ s[1] = 47) THEN [res |-> "None", val |-> <<>>]
    ELSE IF Len(s) = 1 THEN [res |-> "Some", val |-> <<>>]
    ELSE Bind(SplitFrom(SubSeq(s, 2, Len(s)), 47, 1, <<>>), LAMBDA segs :
         IF \E k \in 1..Len(segs) : ~check_seg_valid(segs[k]) THEN [res |-> "None", val |-> <<>>]
         ELSE [res |-> "Some", val |-> segs])

---------------------------------------------------------------------------
(* vsfs.rs: the filesystem layer. A function that returns Result gives    *)
(* [D, res]: the image it leaves and "Ok" or the name of the error.       *)

\* `.find(|&entry| entry.name.eq(seg))`: the inum of the first entry named seg from entry k on, -1 if none
RECURSIVE FindEntry(_, _, _)
FindEntry(es, seg, k) ==
    IF k > Len(es) THEN -1
    ELSE IF es[k].name = seg THEN es[k].inum
    ELSE FindEntry(es, seg, k + 1)

\* the loop of get_inum_by_path from segment k on, standing at inum
RECURSIVE WalkPath(_, _, _, _)
WalkPath(D, path, k, inum) ==
    IF k > Len(path) THEN [st |-> "ok", inum |-> inum]
    ELSE Bind(read_data_struct(D, inum, 0), LAMBDA dir_data :
         IF dir_data.st # "ok" THEN [st |-> dir_data.st, inum |-> -1]
         ELSE Bind(FindEntry(dir_data.entries, path[k], 1), LAMBDA next :
              IF next < 0 THEN [st |-> "ok", inum |-> -1] ELSE WalkPath(D, path, k + 1, next)))

\* get_inum_by_path: [st, inum]; inum = -1 is None
get_inum_by_path(D, path) == IF D.st # "ok" THEN [st |-> D.st, inum |-> -1] ELSE WalkPath(D, path, 1, 0)

\* get_dir_by_path: [st, inum, entries]; inum = -1 is None
get_dir_by_path(D, path) ==
    Bind(get_inum_by_path(D, path), LAMBDA r :
         IF r.st # "ok" \/ r.inum < 0 THEN [st |-> r.st, inum |-> -1, entries |-> <<>>]
         ELSE Bind(read_data_struct(D, r.inum, 0), LAMBDA dir : [st |-> dir.st, inum |-> r.inum, entries |-> dir.entries]))

\* get_inode_by_path / get_inode_mut_by_path: [st, inum]; the inode is read at inum.
\* get_inode panics for an inum outside the index region.
get_inode_by_path(D, path) ==
    Bind(get_inum_by_path(D, path), LAMBDA r :
         IF r.st = "ok" /\ r.inum >= 0 /\ ~InodeInside(r.inum) THEN [st |-> "panic", inum |-> -1] ELSE r)

\* is_dir: [st, res, dir]
is_dir(D, path) ==
    Bind(get_inode_by_path(D, path), LAMBDA r :
         IF r.st # "ok" THEN [st |-> r.st, res |-> "none", dir |-> FALSE]
         ELSE IF r.inum < 0 THEN [st |-> "ok", res |-> "PathNotFound", dir |-> FALSE]
         ELSE [st |-> "ok", res |-> "Ok", dir |-> IsDir(D.iw, r.inum)])

update_access_time(D, path, t) ==
    Bind(get_inode_by_path(D, path), LAMBDA r :
         IF r.st # "ok" THEN [D |-> Fail(D, r.st), res |-> "none"]
         ELSE IF r.inum < 0 THEN [D |-> D, res |-> "PathNotFound"]
         ELSE [D |-> [D EXCEPT !.iw = Put(@, FieldAddr(r.inum, "atime"), t)], res |-> "Ok"])

update_modify_time(D, path, t) ==
    Bind(get_inode_by_path(D, path), LAMBDA r :
         IF r.st # "ok" THEN [D |-> Fail(D, r.st), res |-> "none"]
         ELSE IF r.inum < 0 THEN [D |-> D, res |-> "PathNotFound"]
         ELSE [D |-> [D EXCEPT !.iw = Put(Put(@, FieldAddr(r.inum, "mtime"), t), FieldAddr(r.inum, "atime"), t)], res |-> "Ok"])

\* `*inode = INode { .. }` of init_dir and init_file
StoreInode(D, inum, isdir, t) ==
    IF D.st # "ok" THEN D
    ELSE IF ~InodeInside(inum) THEN Fail(D, "panic")
    ELSE Bind(InodeImage(inum, isdir, t), LAMBDA image : [D EXCEPT !.iw = WriteWords(@, image)])

init_file(D, inum, t) == StoreInode(D, inum, FALSE, t)

init_dir(D, inum, t) == Bind(StoreInode(D, inum, TRUE, t), LAMBDA D1 : write_data_struct_auto_resize(D1, inum, 0, <<>>))

\* what init leaves: everything 0, bit 0 of the inode bitmap set, inode 0 an empty directory
init(t) == Bind([st |-> "ok", ib |-> set_state({}, 0, TRUE), db |-> {}, iw |-> EmptyMap, dw |-> EmptyMap], LAMBDA D : init_dir(D, 0, t))

\* a creation that puts the new entry first, which the properties of the entry order must tell from the code's
CreateNodeFirst(D, path, name, isdir, t) ==
    Bind(get_dir_by_path(D, path), LAMBDA p :
    Bind(get_free_item(D.ib, INDEX_BITMAP_BLOCK_COUNT, ALL_INODE_RANGE), LAMBDA inum :
         IF p.st # "ok" THEN [D |-> Fail(D, p.st), res |-> "none"]
         ELSE IF p.inum < 0 THEN [D |-> D, res |-> "PathNotFound"]
         ELSE IF DirExists(p.entries, name) THEN [D |-> D, res |-> "FileExist"]
         ELSE IF inum = -2 THEN [D |-> D, res |-> "NoSpace"]
         ELSE IF inum = -1 THEN [D |-> Fail(D, "panic"), res |-> "none"]
         ELSE Bind([D EXCEPT !.ib = set_state(@, inum, TRUE)], LAMBDA D1 :
              Bind(IF isdir THEN init_dir(D1, inum, t) ELSE init_file(D1, inum, t), LAMBDA D2 :
              Bind(<<[name |-> name, inum |-> inum]>> \o p.entries, LAMBDA dir :
                   [D |-> write_data_struct_auto_resize(D2, p.inum, 0, dir), res |-> "Ok"])))))

\* create_dir (isdir) and create_file (~isdir) differ in the initialisation of the inode only
CreateNode(D, path, name, isdir, t) ==
    Bind(get_dir_by_path(D, path), LAMBDA p :
    Bind(get_free_item(D.ib, INDEX_BITMAP_BLOCK_COUNT, ALL_INODE_RANGE), LAMBDA inum :
         IF p.st # "ok" THEN [D |-> Fail(D, p.st), res |-> "none"]
         ELSE IF p.inum < 0 THEN [D |-> D, res |-> "PathNotFound"]
         ELSE IF DirExists(p.entries, name) THEN [D |-> D, res |-> "FileExist"]
         ELSE IF inum = -2 THEN [D |-> D, res |-> "NoSpace"]
         ELSE IF inum = -1 THEN [D |-> Fail(D, "panic"), res |-> "none"]
         ELSE Bind([D EXCEPT !.ib = set_state(@, inum, TRUE)], LAMBDA D1 :
              Bind(IF isdir THEN init_dir(D1, inum, t) ELSE init_file(D1, inum, t), LAMBDA D2 :
              Bind(Append(p.entries, [name |-> name, inum |-> inum]), LAMBDA dir :
                   [D |-> write_data_struct_auto_resize(D2, p.inum, 0, dir), res |-> "Ok"])))))

create_dir(D, path, name, t) == CreateNode(D, path, name, TRUE, t)

create_file(D, path, name, t) == CreateNode(D, path, name, FALSE, t)

exists(D, path) == get_inum_by_path(D, path).inum >= 0

\* get_dir: [st, res, entries]
get_dir(D, path) ==
    Bind(is_dir(D, path), LAMBDA d :
         IF d.st # "ok" THEN [st |-> d.st, res |-> "none", entries |-> <<>>]
         ELSE IF d.res # "Ok" THEN [st |-> "ok", res |-> d.res, entries |-> <<>>]
         ELSE IF ~d.dir THEN [st |-> "ok", res |-> "InvalidFileType", entries |-> <<>>]
         ELSE Bind(get_dir_by_path(D, path), LAMBDA p :
              IF p.st # "ok" THEN [st |-> p.st, res |-> "none", entries |-> <<>>]
              ELSE IF p.inum < 0 THEN [st |-> "ok", res |-> "PathNotFound", entries |-> <<>>]
              ELSE [st |-> "ok", res |-> "Ok", entries |-> p.entries]))

\* read_file: [st, res, bytes]
read_file(D, path, start_pos, n) ==
    Bind(get_inode_by_path(D, path), LAMBDA r :
         IF r.st # "ok" THEN [st |-> r.st, res |-> "none", bytes |-> <<>>]
         ELSE IF r.inum < 0 THEN [st |-> "ok", res |-> "PathNotFound", bytes |-> <<>>]
         ELSE IF IsDir(D.iw, r.inum) THEN [st |-> "ok", res |-> "PathNotFound", bytes |-> <<>>]
         ELSE Bind(read_data(D, r.inum, start_pos, n), LAMBDA got : [st |-> got.st, res |-> "Ok", bytes |-> got.bytes]))

write_file(D, path, start_pos, buf) ==
    Bind(get_inode_by_path(D, path), LAMBDA r :
         IF r.st # "ok" THEN [D |-> Fail(D, r.st), res |-> "none"]
         ELSE IF r.inum < 0 THEN [D |-> D, res |-> "PathNotFound"]
         ELSE IF IsDir(D.iw, r.inum) THEN [D |-> D, res |-> "PathNotFound"]
         ELSE [D |-> write_data_auto_resize(D, r.inum, start_pos, buf), res |-> "Ok"])

\* `.filter(|entry| get_state(&mut disk.i_bitmaps, entry.inum as usize))`, from entry k on
RECURSIVE FilterAllocated(_, _, _)
FilterAllocated(ib, es, k) ==
    IF k > Len(es) THEN <<>>
    ELSE IF get_state(ib, es[k].inum) THEN <<es[k]>> \o FilterAllocated(ib, es, k + 1)
    ELSE FilterAllocated(ib, es, k + 1)

update_dir_data(D, path) ==
    Bind(get_dir_by_path(D, path), LAMBDA p :
         IF p.st # "ok" THEN [D |-> Fail(D, p.st), res |-> "none"]
         ELSE IF p.inum < 0 THEN [D |-> D, res |-> "PathNotFound"]
         ELSE IF \E k \in 1..Len(p.entries) : ~BitInside(INDEX_BITMAP_BLOCK_COUNT, p.entries[k].inum) THEN [D |-> Fail(D, "panic"), res |-> "none"]
         ELSE Bind(FilterAllocated(D.ib, p.entries, 1), LAMBDA dir :
              [D |-> write_data_struct_auto_resize(D, p.inum, 0, dir), res |-> "Ok"]))

\* `path.clone().parent().ok_or(InvalidFileType)?; update_dir_data(disk, &parent)`
UpdateParent(D, path) ==
    IF D.st # "ok" THEN [D |-> D, res |-> "none"]
    ELSE IF is_root(path) THEN [D |-> D, res |-> "InvalidFileType"]
    ELSE update_dir_data(D, parent(path))

delete_file(D, path) ==
    Bind(is_dir(D, path), LAMBDA d :
         IF d.st # "ok" THEN [D |-> Fail(D, d.st), res |-> "none"]
         ELSE IF d.res # "Ok" THEN [D |-> D, res |-> d.res]
         ELSE IF d.dir THEN [D |-> D, res |-> "InvalidFileType"]
         ELSE Bind(get_inum_by_path(D, path), LAMBDA r :
              Bind(free_inode(D, r.inum), LAMBDA D1 : UpdateParent(D1, path))))

\* a delete_dir without the test of dir.entries, which the properties of rmdir must tell from the code's
delete_dir_unchecked(D, path) ==
    Bind(is_dir(D, path), LAMBDA d :
         IF d.st # "ok" THEN [D |-> Fail(D, d.st), res |-> "none"]
         ELSE IF d.res # "Ok" THEN [D |-> D, res |-> d.res]
         ELSE IF ~d.dir THEN [D |-> D, res |-> "InvalidFileType"]
         ELSE Bind(get_dir_by_path(D, path), LAMBDA p :
              IF p.st # "ok" THEN [D |-> Fail(D, p.st), res |-> "none"]
              ELSE IF p.inum = 0 THEN [D |-> D, res |-> "InvalidFileType"]
              ELSE Bind(free_inode(D, p.inum), LAMBDA D1 : UpdateParent(D1, path))))

delete_dir(D, path) ==
    Bind(is_dir(D, path), LAMBDA d :
         IF d.st # "ok" THEN [D |-> Fail(D, d.st), res |-> "none"]
         ELSE IF d.res # "Ok" THEN [D |-> D, res |-> d.res]
         ELSE IF ~d.dir THEN [D |-> D, res |-> "InvalidFileType"]
         ELSE Bind(get_dir_by_path(D, path), LAMBDA p :
              IF p.st # "ok" THEN [D |-> Fail(D, p.st), res |-> "none"]
              ELSE IF p.inum = 0 THEN [D |-> D, res |-> "InvalidFileType"]
              ELSE IF Len(p.entries) # 0 THEN [D |-> D, res |-> "DirIsNotEmpty"]
              ELSE Bind(free_inode(D, p.inum), LAMBDA D1 : UpdateParent(D1, path))))

---------------------------------------------------------------------------
(* rw.rs: the open table and the per-path summary.                        *)
(* entries is the Vec of OpenTable: entry id i is entries[i + 1]; a path  *)
(* is the string Path::to_str gives; map is the HashMap of FileRWTable.   *)

Modes == {"Read", "Write", "ReadWrite"}
Writing == {"Write", "ReadWrite"}

\* FileRWTable::set_read / set_write: `*state |= read as u8`, `*state |= (write as u8) << 1`
set_read(map, path, read) ==
    LET state == IF path \in DOMAIN map THEN map[path] ELSE 0
    IN  [x \in DOMAIN map \cup {path} |-> IF x # path THEN map[x] ELSE IF read /\ state % 2 = 0 THEN state + 1 ELSE state]

\* a set_write that sets the bit whatever it is given, which the properties of the summary must tell from the code's
set_write_any(map, path, write) ==
    LET state == IF path \in DOMAIN map THEN map[path] ELSE 0
    IN  [x \in DOMAIN map \cup {path} |-> IF x # path THEN map[x] ELSE IF (state \div 2) % 2 = 0 THEN state + 2 ELSE state]

set_write(map, path, write) ==
    LET state == IF path \in DOMAIN map THEN map[path] ELSE 0
    IN  [x \in DOMAIN map \cup {path} |-> IF x # path THEN map[x] ELSE IF write /\ (state \div 2) % 2 = 0 THEN state + 2 ELSE state]

\* FileRWTable::can_write: `state & 0b10 == 0`, true for a path the map does not hold
\* variants of can_write and update_state that the properties of the open table must tell from the code's
can_write_always(map, path) == TRUE
can_write_readers_block(map, path) == IF path \in DOMAIN map THEN map[path] = 0 ELSE TRUE
can_write(map, path) == IF path \in DOMAIN map THEN (map[path] \div 2) % 2 = 0 ELSE TRUE

\* a table that gives the place of a closed record to the next one, which the properties of the ids must tell from the code's
push_entry_reuses(es, path, mode) ==
    IF \E k \in 1..Len(es) : es[k].deleted
    THEN [es EXCEPT ![CHOOSE k \in 1..Len(es) : es[k].deleted] = [path |-> path, mode |-> mode, deleted |-> FALSE]]
    ELSE Append(es, [path |-> path, mode |-> mode, deleted |-> FALSE])

\* OpenTable::open_file
push_entry(es, path, mode) == Append(es, [path |-> path, mode |-> mode, deleted |-> FALSE])

\* RWManager::open_file: [entries, map, id]
open_file(es, map, path, mode) ==
    [entries |-> push_entry(es, path, mode),
     map |-> IF mode = "Read" THEN set_read(map, path, TRUE)
             ELSE IF mode = "Write" THEN set_write(map, path, TRUE)
             ELSE Bind(set_read(map, path, TRUE), LAMBDA map1 : set_write(map1, path, TRUE)),
     id |-> Len(es)]

\* RWManager::update_state: the map cleared and rebuilt from the entries that are not closed
RECURSIVE Rebuild(_, _, _)
Rebuild(es, k, map) ==
    IF k > Len(es) THEN map
    ELSE IF es[k].deleted \/ es[k].mode = "Directory" THEN Rebuild(es, k + 1, map)
    ELSE Bind(set_read(map, es[k].path, es[k].mode \in {"Read", "ReadWrite"}), LAMBDA map1 :
         Bind(set_write(map1, es[k].path, es[k].mode \in Writing), LAMBDA map2 : Rebuild(es, k + 1, map2)))

update_state_keeps(es) == Rebuild(es, 1, [x \in {es[k].path : k \in 1..Len(es)} |-> 3])
update_state(es) == Rebuild(es, 1, EmptyMap)

\* OpenTable::open_directory and RWManager::open_directory: a record of a
\* directory has no mode; its place in the record holds "Directory". [entries, id]
open_directory(es, path) == [entries |-> Append(es, [path |-> path, mode |-> "Directory", deleted |-> FALSE]), id |-> Len(es)]

\* OpenTable::close
close_entry(es, id) == [es EXCEPT ![id + 1].deleted = TRUE]

\* RWManager::close_file: [entries, map]
close_file(es, id) == Bind(close_entry(es, id), LAMBDA es1 : [entries |-> es1, map |-> update_state(es1)])

\* RWManager::close_directory: the record closed, the summary left as it is
close_directory(es, id) == close_entry(es, id)

\* an if_delete that never finds the record closed, which the properties of close must tell from the code's
if_delete_never(es, id) == FALSE

\* RWManager::if_delete, which the API calls already_open; a panic for an id the table does not hold
if_delete(es, id) == es[id + 1].deleted

\* access_mode(id): None ("none") for a closed entry, the mode it was opened with otherwise
access_mode(es, id) == IF es[id + 1].deleted THEN "none" ELSE es[id + 1].mode

---------------------------------------------------------------------------
(* vsfs_vfs.rs: the API. Each action is one call; `call` and `ret` record  *)
(* it. A call that panics or hangs returns nothing: status leaves "ok" and *)
(* no further call is made.                                                *)

\* names, positions, buffers and lengths the caller uses
Names == {<<97>>}
RECURSIVE PathsOfLen(_)
PathsOfLen(n) == IF n = 0 THEN {Root} ELSE {move_push(p, s) : p \in PathsOfLen(n - 1), s \in Names}
Paths == UNION {PathsOfLen(n) : n \in 0..MaxDepth}

\* a buffer that reads as the encoding of a directory
Crafted == to_le_bytes(Len(to_vec(<<[name |-> <<97>>, inum |-> 9]>>))) \o to_vec(<<[name |-> <<97>>, inum |-> 9]>>)
PosSet == {0, 12 * 4096 - 1, 17 * 4096}
BufSet == {<<1>>, Crafted}
LenSet == {1, Len(Crafted)}

NoCall == [op |-> "init", path |-> Root, mode |-> "none", id |-> -1, pos |-> 0, buf |-> <<>>, n |-> 0]
NoRet == [res |-> "none", val |-> <<>>]

\* the image the call leaves
Commit(D) ==
    /\ status' = D.st
    /\ i_bitmaps' = D.ib
    /\ d_bitmaps' = D.db
    /\ i_blocks' = D.iw
    /\ d_blocks' = D.dw

\* the call and what it returned; nothing when the call did not return
Return(D, c, res, val) ==
    /\ call' = c
    /\ ret' = IF D.st = "ok" THEN [res |-> res, val |-> val] ELSE NoRet
    /\ nops' = nops + 1

CanCall == status = "ok" /\ nops < MaxOps

\* VerySimpleFileSystem::mkdir as a function of the image: [D, res]
vfs_mkdir(D, path, t) == IF is_root(path) THEN [D |-> D, res |-> "InvalidPath"] ELSE create_dir(D, parent(path), current(path), t)

mkdir_call(path) ==
    /\ status = "ok"
    /\ \E r \in {vfs_mkdir(Disk, path, clock)} :
           Commit(r.D) /\ Return(r.D, [NoCall EXCEPT !.op = "mkdir", !.path = path], r.res, <<>>)
    /\ UNCHANGED <<layout, checked, entries, rwmap, files, clock>>

Mkdir(path) == nops < MaxOps /\ mkdir_call(path)

\* VerySimpleFileSystem::create_file as a function of the image: [D, res]
vfs_create_file(D, path, t) ==
    IF is_root(path) THEN [D |-> D, res |-> "InvalidPath"]
    ELSE Bind(create_file(D, parent(path), current(path), t), LAMBDA r :
         IF r.D.st # "ok" \/ r.res # "Ok" THEN r
         ELSE Bind(get_inode_by_path(r.D, path), LAMBDA i :
              IF i.st # "ok" THEN [D |-> Fail(r.D, i.st), res |-> "none"]
              ELSE IF i.inum < 0 THEN [D |-> r.D, res |-> "UnknownError"]
              ELSE r))

create_file_call(path) ==
    /\ status = "ok"
    /\ \E r \in {vfs_create_file(Disk, path, clock)} :
           Commit(r.D) /\ Return(r.D, [NoCall EXCEPT !.op = "create_file", !.path = path], r.res, <<>>)
    /\ UNCHANGED <<layout, checked, entries, rwmap, files, clock>>

CreateFile(path) == nops < MaxOps /\ create_file_call(path)

ShareCreateFile(path) == nops < MaxShareOps /\ create_file_call(path)

rmdir_call(path) ==
    /\ status = "ok"
    /\ \E r \in {delete_dir(Disk, path)} :
           Commit(r.D) /\ Return(r.D, [NoCall EXCEPT !.op = "rmdir", !.path = path], r.res, <<>>)
    /\ UNCHANGED <<layout, checked, entries, rwmap, files, clock>>

Rmdir(path) == nops < MaxOps /\ rmdir_call(path)

delete_file_call(path) ==
    /\ status = "ok"
    /\ \E r \in {delete_file(Disk, path)} :
           Commit(r.D) /\ Return(r.D, [NoCall EXCEPT !.op = "delete_file", !.path = path], r.res, <<>>)
    /\ UNCHANGED <<layout, checked, entries, rwmap, files, clock>>

DeleteFile(path) == nops < MaxOps /\ delete_file_call(path)

\* an open that makes the record before it looks for the path, which the properties of open must tell from the code's
vfs_open_records_first(D, es, map, path, mode, t) ==
    IF mode \in Writing /\ ~can_write(map, to_str(path)) THEN [D |-> D, res |-> "FileCannotWrite", entries |-> es, map |-> map, id |-> -1]
    ELSE Bind(open_file(es, map, to_str(path), mode), LAMBDA o :
         Bind(get_inum_by_path(D, path), LAMBDA r :
              IF r.st # "ok" THEN [D |-> Fail(D, r.st), res |-> "none", entries |-> o.entries, map |-> o.map, id |-> -1]
              ELSE IF r.inum < 0 THEN [D |-> D, res |-> "FileNotExist", entries |-> o.entries, map |-> o.map, id |-> -1]
              ELSE Bind(update_access_time(D, path, t), LAMBDA u :
                   [D |-> u.D, res |-> u.res, entries |-> o.entries, map |-> o.map, id |-> o.id])))

\* VerySimpleFileSystem::open as a function of the image and the manager:
\* [D, res, entries, map, id]; id = -1 when no entry is made
vfs_open(D, es, map, path, mode, t) ==
    IF mode \in Writing /\ ~can_write(map, to_str(path)) THEN [D |-> D, res |-> "FileCannotWrite", entries |-> es, map |-> map, id |-> -1]
    ELSE Bind(get_inum_by_path(D, path), LAMBDA r :
         IF r.st # "ok" THEN [D |-> Fail(D, r.st), res |-> "none", entries |-> es, map |-> map, id |-> -1]
         ELSE IF r.inum < 0 THEN [D |-> D, res |-> "FileNotExist", entries |-> es, map |-> map, id |-> -1]
         ELSE Bind(open_file(es, map, to_str(path), mode), LAMBDA o :
              Bind(update_access_time(D, path, t), LAMBDA u :
                   [D |-> u.D, res |-> u.res, entries |-> o.entries, map |-> o.map, id |-> o.id])))

open_call(path, mode) ==
    /\ status = "ok"
    /\ \E r \in {vfs_open(Disk, entries, rwmap, path, mode, clock)} :
           /\ Commit(r.D)
           /\ Return(r.D, [NoCall EXCEPT !.op = "open", !.path = path, !.mode = mode, !.id = r.id], r.res, <<>>)
           /\ entries' = r.entries
           /\ rwmap' = r.map
           /\ files' = IF r.D.st = "ok" /\ r.res = "Ok"
                       THEN Append(files, [path |-> path, mode |-> mode, position |-> 0, id |-> r.id])
                       ELSE files
    /\ UNCHANGED <<layout, checked, clock>>

Open(path, mode) == nops < MaxOps /\ Len(entries) < MaxHandles /\ open_call(path, mode)

ShareOpen(path, mode) == nops < MaxShareOps /\ Len(entries) < MaxShareHandles /\ open_call(path, mode)

\* the handle is moved into close: the caller holds it no longer
Drop(h) == [k \in 1..(Len(files) - 1) |-> IF k < h THEN files[k] ELSE files[k + 1]]

\* VerySimpleFileSystem::close as a function of the manager: [res, entries, map]
vfs_close(es, map, id) ==
    IF if_delete(es, id) THEN [res |-> "FileNotOpen", entries |-> es, map |-> map]
    ELSE Bind(close_file(es, id), LAMBDA r : [res |-> "Ok", entries |-> r.entries, map |-> r.map])

close_call(h) ==
    /\ status = "ok"
    /\ h \in 1..Len(files)
    /\ \E r \in {vfs_close(entries, rwmap, files[h].id)} :
           /\ Return(Disk, [NoCall EXCEPT !.op = "close", !.path = files[h].path, !.mode = files[h].mode, !.id = files[h].id], r.res, <<>>)
           /\ entries' = r.entries
           /\ rwmap' = r.map
    /\ files' = Drop(h)
    /\ UNCHANGED <<layout, checked, status, i_bitmaps, d_bitmaps, i_blocks, d_blocks, clock>>

Close(h) == nops < MaxOps /\ close_call(h)

\* close called by code that keeps the fields of the handle (code of the
\* module, or a caller that holds a handle of another filesystem with the
\* same id): the same call, and the value can be presented again
close_kept_call(h) ==
    /\ status = "ok"
    /\ h \in 1..Len(files)
    /\ \E r \in {vfs_close(entries, rwmap, files[h].id)} :
           /\ Return(Disk, [NoCall EXCEPT !.op = "close", !.path = files[h].path, !.mode = files[h].mode, !.id = files[h].id], r.res, <<>>)
           /\ entries' = r.entries
           /\ rwmap' = r.map
    /\ UNCHANGED <<layout, checked, status, i_bitmaps, d_bitmaps, i_blocks, d_blocks, files, clock>>

ShareClose(h) == nops < MaxShareOps /\ close_call(h)

\* VirtualFile::set_position: a field of the caller's handle, no call into the filesystem
SetPosition(h, pos) ==
    /\ status = "ok"
    /\ h \in 1..Len(files)
    /\ files[h].position # pos
    /\ files' = [files EXCEPT ![h].position = pos]
    /\ UNCHANGED <<layout, checked, status, i_bitmaps, d_bitmaps, i_blocks, d_blocks, entries, rwmap, clock, call, ret, nops>>

\* `min(buf.len(), inode.size as usize - file.position)`; the subtraction wraps
\* to a number above every length when the build does not check it
ReadLen(n, size, position) == IF size < position THEN n ELSE Min(n, size - position)

NoRead(D, res) == [D |-> D, res |-> res, bytes |-> <<>>, len |-> 0]

\* VerySimpleFileSystem::read as a function of the image: [D, res, bytes, len]
vfs_read(D, es, file, n, t) ==
    IF access_mode(es, file.id) = "none" THEN NoRead(D, "FileNotOpen")
    ELSE IF access_mode(es, file.id) # file.mode THEN NoRead(D, "AccessError")
    ELSE Bind(get_inode_by_path(D, file.path), LAMBDA i :
         IF i.st # "ok" THEN NoRead(Fail(D, i.st), "none")
         ELSE IF i.inum < 0 THEN NoRead(D, "FileNotExist")
         ELSE IF Field(D.iw, i.inum, "size") < file.position /\ checked THEN NoRead(Fail(D, "panic"), "none")
         ELSE Bind(ReadLen(n, Field(D.iw, i.inum, "size"), file.position), LAMBDA len :
              Bind(read_file(D, file.path, file.position, len), LAMBDA got :
                   IF got.st # "ok" THEN NoRead(Fail(D, got.st), "none")
                   ELSE IF got.res # "Ok" THEN NoRead(D, "UnknownError")
                   ELSE Bind(update_access_time(D, file.path, t), LAMBDA u :
                        [D |-> u.D, res |-> u.res, bytes |-> got.bytes, len |-> len]))))

read_call(h, n) ==
    /\ status = "ok"
    /\ h \in 1..Len(files)
    /\ \E r \in {vfs_read(Disk, entries, files[h], n, clock)} :
           /\ Commit(r.D)
           /\ Return(r.D, [NoCall EXCEPT !.op = "read", !.path = files[h].path, !.mode = files[h].mode, !.id = files[h].id, !.pos = files[h].position, !.n = n], r.res, r.bytes)
           /\ files' = [files EXCEPT ![h].position = @ + r.len]
    /\ UNCHANGED <<layout, checked, entries, rwmap, clock>>

Read(h, n) == nops < MaxOps /\ read_call(h, n)

\* VerySimpleFileSystem::write as a function of the image: [D, res, len]
vfs_write(D, es, file, buf, t) ==
    IF access_mode(es, file.id) = "none" THEN [D |-> D, res |-> "FileNotOpen", len |-> 0]
    ELSE IF access_mode(es, file.id) # file.mode \/ access_mode(es, file.id) = "Read" THEN [D |-> D, res |-> "AccessError", len |-> 0]
    ELSE Bind(write_file(D, file.path, file.position, buf), LAMBDA w :
         IF w.D.st # "ok" \/ w.res # "Ok" THEN [D |-> w.D, res |-> w.res, len |-> 0]
         ELSE Bind(update_modify_time(w.D, file.path, t), LAMBDA u : [D |-> u.D, res |-> u.res, len |-> Len(buf)]))

write_call(h, buf) ==
    /\ status = "ok"
    /\ h \in 1..Len(files)
    /\ \E r \in {vfs_write(Disk, entries, files[h], buf, clock)} :
           /\ Commit(r.D)
           /\ Return(r.D, [NoCall EXCEPT !.op = "write", !.path = files[h].path, !.mode = files[h].mode, !.id = files[h].id, !.pos = files[h].position, !.buf = buf], r.res, <<r.len>>)
           /\ files' = [files EXCEPT ![h].position = @ + r.len]
    /\ UNCHANGED <<layout, checked, entries, rwmap, clock>>

Write(h, buf) == nops < MaxOps /\ write_call(h, buf)

\* the loop of list from entry k on: the inode of every entry is looked up by path
RECURSIVE ListLookup(_, _, _, _)
ListLookup(D, path, es, k) ==
    IF k > Len(es) THEN "Ok"
    ELSE Bind(get_inode_by_path(D, move_push(path, es[k].name)), LAMBDA r :
         IF r.st # "ok" THEN r.st
         ELSE IF r.inum < 0 THEN "UnknownError"
         ELSE ListLookup(D, path, es, k + 1))

\* VerySimpleFileSystem::list as a function of the image: [D, res, names]
vfs_list(D, path, t) ==
    Bind(get_dir(D, path), LAMBDA dir :
         IF dir.st # "ok" THEN [D |-> Fail(D, dir.st), res |-> "none", names |-> <<>>]
         ELSE IF dir.res # "Ok" THEN [D |-> D, res |-> dir.res, names |-> <<>>]
         ELSE Bind(ListLookup(D, path, dir.entries, 1), LAMBDA l :
              IF l \in {"panic", "hang"} THEN [D |-> Fail(D, l), res |-> "none", names |-> <<>>]
              ELSE IF l # "Ok" THEN [D |-> D, res |-> l, names |-> <<>>]
              ELSE Bind(update_access_time(D, path, t), LAMBDA u :
                   [D |-> u.D, res |-> u.res, names |-> [k \in 1..Len(dir.entries) |-> dir.entries[k].name]])))

List(path) ==
    /\ CanCall
    /\ \E r \in {vfs_list(Disk, path, clock)} :
           Commit(r.D) /\ Return(r.D, [NoCall EXCEPT !.op = "list", !.path = path], r.res, r.names)
    /\ UNCHANGED <<layout, checked, entries, rwmap, files, clock>>

\* VerySimpleFileSystem::exists as a function of the image: [D, res, val]. The
\* boolean vsfs::exists gives is returned only when update_access_time succeeds.
vfs_exists(D, path, t) ==
    Bind(exists(D, path), LAMBDA res :
    Bind(update_access_time(D, path, t), LAMBDA u :
         [D |-> u.D, res |-> u.res, val |-> IF u.res = "Ok" THEN <<res>> ELSE <<>>]))

exists_call(path) ==
    /\ status = "ok"
    /\ \E u \in {vfs_exists(Disk, path, clock)} :
           Commit(u.D) /\ Return(u.D, [NoCall EXCEPT !.op = "exists", !.path = path], u.res, u.val)
    /\ UNCHANGED <<layout, checked, entries, rwmap, files, clock>>

Exists(path) == nops < MaxOps /\ exists_call(path)

---------------------------------------------------------------------------
(* The system: a filesystem made by VerySimpleFileSystem::new and init,   *)
(* and a caller that makes the calls of the API one after the other.      *)

\* seconds since the epoch when the image is made
Now == 17 * 100000000

\* Disk::new (every byte 0) and VerySimpleFileSystem::new (an empty manager)
Init ==
    /\ layout \in Layouts
    /\ checked \in BOOLEAN
    /\ clock = Now
    /\ status = "new"
    /\ i_bitmaps = {}
    /\ d_bitmaps = {}
    /\ i_blocks = EmptyMap
    /\ d_blocks = EmptyMap
    /\ entries = <<>>
    /\ rwmap = EmptyMap
    /\ files = <<>>
    /\ call = NoCall
    /\ ret = NoRet
    /\ nops = 0

\* VerySimpleFileSystem::init, the first call the program makes on a new image
VfsInit ==
    /\ status = "new"
    /\ Commit(init(clock))
    /\ call' = NoCall
    /\ ret' = [res |-> "Ok", val |-> <<>>]
    /\ UNCHANGED <<layout, checked, entries, rwmap, files, clock, nops>>

Next ==
    \/ VfsInit
    \/ \E path \in Paths : Mkdir(path)
    \/ \E path \in Paths : CreateFile(path)
    \/ \E path \in Paths : Rmdir(path)
    \/ \E path \in Paths : DeleteFile(path)
    \/ \E path \in Paths, mode \in Modes : Open(path, mode)
    \/ \E h \in 1..MaxHandles : Close(h)
    \/ \E h \in 1..MaxHandles, pos \in PosSet : SetPosition(h, pos)
    \/ \E h \in 1..MaxHandles, n \in LenSet : Read(h, n)
    \/ \E h \in 1..MaxHandles, buf \in BufSet : Write(h, buf)
    \/ \E path \in Paths : List(path)
    \/ \E path \in Paths : Exists(path)

Spec == Init /\ [][Next]_vars

\* runs that only create, open and close: the open table is what changes
NextShare ==
    \/ VfsInit
    \/ \E path \in Paths : ShareCreateFile(path)
    \/ \E path \in Paths, mode \in Modes : ShareOpen(path, mode)
    \/ \E h \in 1..MaxShareHandles : ShareClose(h)

SpecShare == Init /\ [][NextShare]_vars

\* runs that only make and remove directories and files, two names, nested
DirNames == {<<97>>, <<98>>}
RECURSIVE DirPathsOfLen(_)
DirPathsOfLen(n) == IF n = 0 THEN {Root} ELSE {move_push(p, s) : p \in DirPathsOfLen(n - 1), s \in DirNames}
DirPaths == UNION {DirPathsOfLen(n) : n \in 0..MaxDirDepth}

DirMkdir(path) == nops < MaxDirOps /\ mkdir_call(path)
DirCreateFile(path) == nops < MaxDirOps /\ create_file_call(path)
DirRmdir(path) == nops < MaxDirOps /\ rmdir_call(path)
DirDeleteFile(path) == nops < MaxDirOps /\ delete_file_call(path)

NextDir ==
    \/ VfsInit
    \/ \E path \in DirPaths : DirMkdir(path)
    \/ \E path \in DirPaths : DirCreateFile(path)
    \/ \E path \in DirPaths : DirRmdir(path)
    \/ \E path \in DirPaths : DirDeleteFile(path)

SpecDir == Init /\ [][NextDir]_vars

\* utils::time gives a later second to a later call
Tick ==
    /\ status = "ok"
    /\ clock < Now + MaxTicks
    /\ clock' = clock + 1
    /\ UNCHANGED <<layout, checked, status, i_bitmaps, d_bitmaps, i_blocks, d_blocks, entries, rwmap, files, call, ret, nops>>

\* runs in which handles are presented again after they were closed
HandleCreateFile(path) == nops < MaxHandleOps /\ create_file_call(path)
HandleOpen(path, mode) == nops < MaxHandleOps /\ Len(entries) < MaxHandleRecords /\ open_call(path, mode)
HandleClose(h) == nops < MaxHandleOps /\ close_kept_call(h)
HandleRead(h, n) == nops < MaxHandleOps /\ read_call(h, n)
HandleWrite(h, buf) == nops < MaxHandleOps /\ write_call(h, buf)

NextHandle ==
    \/ VfsInit
    \/ Tick
    \/ \E path \in Paths : HandleCreateFile(path)
    \/ \E path \in Paths, mode \in Modes : HandleOpen(path, mode)
    \/ \E h \in 1..MaxHandleRecords : HandleClose(h)
    \/ \E h \in 1..MaxHandleRecords : HandleRead(h, 1)
    \/ \E h \in 1..MaxHandleRecords : HandleWrite(h, <<1>>)

SpecHandle == Init /\ [][NextHandle]_vars

\* runs that write and read one file past its direct blocks, through one
\* ReadWrite handle. The name is long enough for the root directory to be
\* as large as a directory of two entries named "a".
RWName == [k \in 1..23 |-> 98]
RWPath == <<RWName>>
Twice == to_le_bytes(Len(to_vec(<<[name |-> <<97>>, inum |-> 1], [name |-> <<97>>, inum |-> 1]>>))) \o to_vec(<<[name |-> <<97>>, inum |-> 1], [name |-> <<97>>, inum |-> 1]>>)
RWPosSet == {12 * 4096 - 1, 13 * 4096, 17 * 4096}
RWBufSet == {<<1>>, Twice}

RWCreateFile == nops < MaxRWOps /\ create_file_call(RWPath)
RWOpen == nops < MaxRWOps /\ Len(entries) < 1 /\ open_call(RWPath, "ReadWrite")
RWWrite(buf) == nops < MaxRWOps /\ write_call(1, buf)
RWRead(n) == nops < MaxRWOps /\ read_call(1, n)
RWExists == nops < MaxRWOps /\ exists_call(Root)

NextRW ==
    \/ VfsInit
    \/ RWCreateFile
    \/ RWOpen
    \/ \E pos \in RWPosSet : SetPosition(1, pos)
    \/ \E buf \in RWBufSet : RWWrite(buf)
    \/ RWRead(1)
    \/ RWExists

SpecRW == Init /\ [][NextRW]_vars

\* runs that make and remove three entries in the root and one below the first
OrderNames == {<<97>>, <<98>>, <<99>>}
OrderPaths == {<<n>> : n \in OrderNames} \cup {<<<<97>>, <<97>>>>}

OrderMkdir(path) == nops < MaxOrderOps /\ mkdir_call(path)
OrderCreateFile(path) == nops < MaxOrderOps /\ create_file_call(path)
OrderRmdir(path) == nops < MaxOrderOps /\ rmdir_call(path)
OrderDeleteFile(path) == nops < MaxOrderOps /\ delete_file_call(path)

NextOrder ==
    \/ VfsInit
    \/ \E path \in OrderPaths : OrderMkdir(path)
    \/ \E path \in OrderPaths : OrderCreateFile(path)
    \/ \E path \in OrderPaths : OrderRmdir(path)
    \/ \E path \in OrderPaths : OrderDeleteFile(path)

SpecOrder == Init /\ [][NextOrder]_vars

\* runs that make and remove directories in the root under three names, one
\* of them so long that the list of the root fills its twelve direct blocks
\* to the last four bytes
LongLen == DIRECT_BLOCK_COUNT * BLOCK_BYTES - 4 - (4 + Len(to_vec(<<[name |-> <<>>, inum |-> 1]>>)))
LongName == [k \in 1..LongLen |-> 97]
TripPaths == {<<<<98>>>>, <<<<99>>>>, <<LongName>>}

TripMkdir(path) == nops < MaxTripOps /\ mkdir_call(path)
TripRmdir(path) == nops < MaxTripOps /\ rmdir_call(path)

NextTrip ==
    \/ VfsInit
    \/ \E path \in TripPaths : TripMkdir(path)
    \/ \E path \in TripPaths : TripRmdir(path)

SpecTrip == Init /\ [][NextTrip]_vars

\* runs that size the block lists of two files: create_file allocates the
\* inode, resize is called as write_data_auto_resize calls it, with the size
\* a write would end at, and delete_file frees the inode
EnginePaths == {<<<<97>>>>, <<<<98>>>>}
EngineSizes == {k * BLOCK_BYTES : k \in {1, DIRECT_BLOCK_COUNT, DIRECT_BLOCK_COUNT + 1, DIRECT_BLOCK_COUNT + 2}}

resize_call(path, new_size) ==
    /\ status = "ok"
    /\ \E i \in {get_inode_by_path(Disk, path)} :
           /\ i.st = "ok" /\ i.inum >= 0 /\ ~IsDir(i_blocks, i.inum)
           /\ \E D \in {resize(Disk, i.inum, new_size)} :
                  Commit(D) /\ Return(D, [NoCall EXCEPT !.op = "resize", !.path = path, !.id = i.inum, !.pos = new_size], "Ok", <<>>)
    /\ UNCHANGED <<layout, checked, entries, rwmap, files, clock>>

EngineCreateFile(path) == nops < MaxEngineOps /\ create_file_call(path)
EngineResize(path, new_size) == nops < MaxEngineOps /\ resize_call(path, new_size)
EngineDeleteFile(path) == nops < MaxEngineOps /\ delete_file_call(path)

NextEngine ==
    \/ VfsInit
    \/ \E path \in EnginePaths : EngineCreateFile(path)
    \/ \E path \in EnginePaths, new_size \in EngineSizes : EngineResize(path, new_size)
    \/ \E path \in EnginePaths : EngineDeleteFile(path)

SpecEngine == Init /\ [][NextEngine]_vars

\* the bitmap functions on their own, on the image init leaves: each call
\* takes a region (the inode bitmap or the data bitmap), an index of the
\* region's allocator range and, for the setters, a state. call.mode is the
\* region, call.id the index, call.n the state (1 for true); a call whose
\* indexing leaves the array panics and does not return.
Regions == {"inode", "data"}
RegionBitmap(D, region) == IF region = "inode" THEN D.ib ELSE D.db
RegionBlocks(region) == IF region = "inode" THEN INDEX_BITMAP_BLOCK_COUNT ELSE DATA_BITMAP_BLOCK_COUNT
RegionRange(region) == IF region = "inode" THEN ALL_INODE_RANGE ELSE ALL_DATA_BLOCK_RANGE
WithBitmap(D, region, bitmap) == IF region = "inode" THEN [D EXCEPT !.ib = bitmap] ELSE [D EXCEPT !.db = bitmap]

\* the first and the last index of each word, bitmap block and range
BitIndexes(region) == {i \in {0, 1, 31, 32, 33, 1023, 1024, 32767, 32768, 32769, 61432, 65535, 65536, 131071} : i < RegionRange(region)}
WordIndexes == {0, 1, 2, 32, 1023, 1024, 1025, 2048, 4095}

BitCall(op, region, index, state) == [NoCall EXCEPT !.op = op, !.mode = region, !.id = index, !.n = IF state THEN 1 ELSE 0]

\* the word as its 32 bits, bit 0 first
WordValue(bits, index) == [b \in 1..32 |-> IF \E x \in bits : x % 32 = b - 1 THEN 1 ELSE 0]

BitsStep(D, c, res, val) ==
    /\ status = "ok" /\ nops < MaxBitOps
    /\ Commit(D) /\ Return(D, c, res, val)
    /\ UNCHANGED <<layout, checked, entries, rwmap, files, clock>>

BitsGet(region, index) ==
    IF ~BitInside(RegionBlocks(region), index) THEN BitsStep(Fail(Disk, "panic"), BitCall("get_state", region, index, FALSE), "none", <<>>)
    ELSE BitsStep(Disk, BitCall("get_state", region, index, FALSE), "Ok", <<IF get_state(RegionBitmap(Disk, region), index) THEN 1 ELSE 0>>)

BitsSet(region, index, state) ==
    IF ~BitInside(RegionBlocks(region), index) THEN BitsStep(Fail(Disk, "panic"), BitCall("set_state", region, index, state), "none", <<>>)
    ELSE BitsStep(WithBitmap(Disk, region, set_state(RegionBitmap(Disk, region), index, state)), BitCall("set_state", region, index, state), "Ok", <<>>)

BitsWordGet(index) ==
    IF ~WordInside(INDEX_BITMAP_BLOCK_COUNT, index) THEN BitsStep(Fail(Disk, "panic"), BitCall("get_block_state", "inode", index, FALSE), "none", <<>>)
    ELSE BitsStep(Disk, BitCall("get_block_state", "inode", index, FALSE), "Ok", WordValue(get_block_state(i_bitmaps, index), index))

BitsWordSet(index, state) ==
    IF ~WordInside(INDEX_BITMAP_BLOCK_COUNT, index) THEN BitsStep(Fail(Disk, "panic"), BitCall("set_block_state", "inode", index, state), "none", <<>>)
    ELSE BitsStep(WithBitmap(Disk, "inode", set_block_state(i_bitmaps, index, state)), BitCall("set_block_state", "inode", index, state), "Ok", <<>>)

BitsFreeWord ==
    \E w \in {get_free_block(i_bitmaps, INDEX_BITMAP_BLOCK_COUNT, ALL_INDEX_BLOCK_RANGE)} :
        IF w = -1 THEN BitsStep(Fail(Disk, "panic"), BitCall("get_free_block", "inode", -1, FALSE), "none", <<>>)
        ELSE IF w = -2 THEN BitsStep(Disk, BitCall("get_free_block", "inode", -1, FALSE), "None", <<>>)
        ELSE BitsStep(Disk, BitCall("get_free_block", "inode", w, FALSE), "Some", <<w>>)

NextBits ==
    \/ VfsInit
    \/ \E region \in Regions : \E index \in BitIndexes(region) : BitsGet(region, index)
    \/ \E region \in Regions : \E index \in BitIndexes(region), state \in BOOLEAN : BitsSet(region, index, state)
    \/ \E index \in WordIndexes : BitsWordGet(index)
    \/ \E index \in WordIndexes, state \in BOOLEAN : BitsWordSet(index, state)
    \/ BitsFreeWord

SpecBits == Init /\ [][NextBits]_vars

\* the manager on its own, as rw.rs's tests drive it: files are opened in
\* any mode whatever is open already, directories are opened, and a record is
\* closed by the close of its kind. call.buf is the path, call.id the id.
MgrPaths == {to_str(<<<<97>>>>), to_str(<<<<98>>>>)}

MgrStep(es, map, c, val) ==
    /\ nops < MaxMgrOps
    /\ entries' = es /\ rwmap' = map
    /\ call' = c /\ ret' = [res |-> "Ok", val |-> val] /\ nops' = nops + 1
    /\ UNCHANGED <<layout, checked, status, i_bitmaps, d_bitmaps, i_blocks, d_blocks, files, clock>>

MgrOpenFile(path, mode) ==
    \E r \in {open_file(entries, rwmap, path, mode)} :
        MgrStep(r.entries, r.map, [NoCall EXCEPT !.op = "open_file", !.buf = path, !.mode = mode, !.id = r.id], <<r.id>>)

MgrOpenDirectory(path) ==
    \E r \in {open_directory(entries, path)} :
        MgrStep(r.entries, rwmap, [NoCall EXCEPT !.op = "open_directory", !.buf = path, !.id = r.id], <<r.id>>)

MgrCloseFile(id) ==
    /\ id < Len(entries) /\ entries[id + 1].mode # "Directory"
    /\ \E r \in {close_file(entries, id)} :
           MgrStep(r.entries, r.map, [NoCall EXCEPT !.op = "close_file", !.buf = entries[id + 1].path, !.id = id], <<>>)

MgrCloseDirectory(id) ==
    /\ id < Len(entries) /\ entries[id + 1].mode = "Directory"
    /\ MgrStep(close_directory(entries, id), rwmap, [NoCall EXCEPT !.op = "close_directory", !.buf = entries[id + 1].path, !.id = id], <<>>)

NextManager ==
    \/ \E path \in MgrPaths, mode \in Modes : MgrOpenFile(path, mode)
    \/ \E path \in MgrPaths : MgrOpenDirectory(path)
    \/ \E id \in 0..(MaxMgrOps - 1) : MgrCloseFile(id)
    \/ \E id \in 0..(MaxMgrOps - 1) : MgrCloseDirectory(id)

SpecManager == Init /\ [][NextManager]_vars

\* the lookup on its own: a file is created and sized as in SpecEngine, and
\* get_dnum and transform_pos are called on the root and on the file with
\* indexes and positions on both sides of block_count, of the direct blocks
\* and of the indirect limit. call.id is the inode, call.pos the index or
\* the position.
LookPaths == {Root, <<<<97>>>>}
LookIndexes == {0, 1, DIRECT_BLOCK_COUNT - 1, DIRECT_BLOCK_COUNT, DIRECT_BLOCK_COUNT + 1, DIRECT_BLOCK_COUNT + 2, DIRECT_BLOCK_COUNT + IDX_WORDS - 1, DIRECT_BLOCK_COUNT + IDX_WORDS}
LookPositions == {i * BLOCK_BYTES + o : i \in LookIndexes, o \in {0, 5, BLOCK_BYTES - 1}}

LookCreateFile(path) == nops < MaxLookOps /\ create_file_call(path)
LookResize(path, new_size) == nops < MaxLookOps /\ resize_call(path, new_size)

LookStep(inum, op, arg, st, val) ==
    /\ nops < MaxLookOps
    /\ \E D \in {IF st = "ok" THEN Disk ELSE Fail(Disk, st)} :
           Commit(D) /\ Return(D, [NoCall EXCEPT !.op = op, !.id = inum, !.pos = arg], "Ok", val)
    /\ UNCHANGED <<layout, checked, entries, rwmap, files, clock>>

LookDnum(path, index) ==
    /\ status = "ok"
    /\ \E i \in {get_inode_by_path(Disk, path)} :
           /\ i.st = "ok" /\ i.inum >= 0
           /\ \E r \in {get_dnum(i_blocks, i.inum, index)} : LookStep(i.inum, "get_dnum", index, r.st, <<r.dnum>>)

LookPos(path, pos) ==
    /\ status = "ok"
    /\ \E i \in {get_inode_by_path(Disk, path)} :
           /\ i.st = "ok" /\ i.inum >= 0
           /\ \E r \in {transform_pos(i_blocks, i.inum, pos)} : LookStep(i.inum, "transform_pos", pos, r.st, <<r.dnum, r.offset>>)

NextLookup ==
    \/ VfsInit
    \/ \E path \in LookPaths : LookCreateFile(path)
    \/ \E path \in LookPaths, new_size \in EngineSizes : LookResize(path, new_size)
    \/ \E path \in LookPaths, index \in LookIndexes : LookDnum(path, index)
    \/ \E path \in LookPaths, pos \in LookPositions : LookPos(path, pos)

SpecLookup == Init /\ [][NextLookup]_vars

\* read_data and write_data called on an allocated inode, inside their
\* contract (start_pos + len <= size) and outside it: a run makes a file, sizes it with resize, may ask
\* whether a path exists (which stamps its access time) and ends with one
\* copy. call.id is the inode, call.pos the start, call.n the number of bytes.
CopyPaths == {Root, <<<<97>>>>}
CopyInums == {0, 1}
CopySizes == {5, BLOCK_BYTES + 1, DIRECT_BLOCK_COUNT * BLOCK_BYTES, (DIRECT_BLOCK_COUNT + 2) * BLOCK_BYTES - 1}
CopyPositions == {0, 5, BLOCK_BYTES - 1, BLOCK_BYTES, DIRECT_BLOCK_COUNT * BLOCK_BYTES - 1, (DIRECT_BLOCK_COUNT + 1) * BLOCK_BYTES}
CopyLens == {0, 1, 2, 5, BLOCK_BYTES + 1}

CopyDone == call.op \in {"read_data", "write_data"}
CopyCreateFile(path) == nops < MaxCopyOps /\ ~CopyDone /\ create_file_call(path)
CopyResize(path, new_size) == nops < MaxCopyOps /\ ~CopyDone /\ resize_call(path, new_size)
CopyExists(path) == nops < MaxCopyOps /\ ~CopyDone /\ exists_call(path)

CopyRead(inum, start_pos, n) ==
    /\ status = "ok" /\ nops < MaxCopyOps /\ ~CopyDone
    /\ get_state(i_bitmaps, inum)
    /\ \E r \in {read_data(Disk, inum, start_pos, n)} :
           \E D \in {IF r.st = "ok" THEN Disk ELSE Fail(Disk, r.st)} :
               Commit(D) /\ Return(D, [NoCall EXCEPT !.op = "read_data", !.id = inum, !.pos = start_pos, !.n = n], "Ok", r.bytes)
    /\ UNCHANGED <<layout, checked, entries, rwmap, files, clock>>

CopyWrite(inum, start_pos, n) ==
    /\ status = "ok" /\ nops < MaxCopyOps /\ ~CopyDone
    /\ get_state(i_bitmaps, inum)
    /\ \E D \in {write_data(Disk, inum, start_pos, [k \in 1..n |-> 7])} :
           Commit(D) /\ Return(D, [NoCall EXCEPT !.op = "write_data", !.id = inum, !.pos = start_pos, !.n = n, !.buf = [k \in 1..n |-> 7]], "Ok", <<>>)
    /\ UNCHANGED <<layout, checked, entries, rwmap, files, clock>>

NextCopy ==
    \/ VfsInit
    \/ \E path \in CopyPaths : CopyCreateFile(path)
    \/ \E path \in CopyPaths, new_size \in CopySizes : CopyResize(path, new_size)
    \/ \E path \in CopyPaths : CopyExists(path)
    \/ \E inum \in CopyInums, start_pos \in CopyPositions, n \in CopyLens : CopyRead(inum, start_pos, n)
    \/ \E inum \in CopyInums, start_pos \in CopyPositions, n \in CopyLens : CopyWrite(inum, start_pos, n)

SpecCopy == Init /\ [][NextCopy]_vars

\* Path::from_str and Path::to_str on their own: a run starts from a text,
\* parses it and renders what it parsed, or starts from a path built by
\* Path::push, renders it and parses what it rendered. call.buf is the text,
\* call.path the path, ret what the last function gave.
TextChars == {47, 97, 58, 92}
Texts == UNION {[1..k -> TextChars] : k \in 0..MaxTextLen}
SegChars == {97, 46}
Segs == UNION {[1..k -> SegChars] : k \in 1..MaxSegLen}
RECURSIVE BuiltPaths(_)
BuiltPaths(n) == IF n = 0 THEN {Root} ELSE BuiltPaths(n - 1) \cup {move_push(q, seg) : q \in BuiltPaths(n - 1), seg \in Segs}

InitPath ==
    /\ layout \in Layouts
    /\ checked \in BOOLEAN
    /\ clock = Now
    /\ status = "new"
    /\ i_bitmaps = {}
    /\ d_bitmaps = {}
    /\ i_blocks = EmptyMap
    /\ d_blocks = EmptyMap
    /\ entries = <<>>
    /\ rwmap = EmptyMap
    /\ files = <<>>
    /\ \/ \E s \in Texts : call = [NoCall EXCEPT !.op = "text", !.buf = s]
       \/ \E q \in BuiltPaths(MaxSegs) : call = [NoCall EXCEPT !.op = "built", !.path = q]
    /\ ret = NoRet
    /\ nops = 0

PathStep(op, path, buf, res, val) ==
    /\ call' = [call EXCEPT !.op = op, !.path = path, !.buf = buf]
    /\ ret' = [res |-> res, val |-> val]
    /\ nops' = nops + 1
    /\ UNCHANGED <<layout, checked, status, i_bitmaps, d_bitmaps, i_blocks, d_blocks, entries, rwmap, files, clock>>

ParseText ==
    /\ call.op = "text"
    /\ \E r \in {from_str(call.buf)} : PathStep("from_str", r.val, call.buf, r.res, r.val)

RenderParsed ==
    /\ call.op = "from_str" /\ ret.res = "Some"
    /\ PathStep("to_str", call.path, call.buf, "Ok", to_str(call.path))

RenderBuilt ==
    /\ call.op = "built"
    /\ \E s \in {to_str(call.path)} : PathStep("rendered", call.path, s, "Ok", s)

ParseRendered ==
    /\ call.op = "rendered"
    /\ \E r \in {from_str(call.buf)} : PathStep("parsed", call.path, call.buf, r.res, r.val)

NextPath == ParseText \/ RenderParsed \/ RenderBuilt \/ ParseRendered

SpecPath == InitPath /\ [][NextPath]_vars

\* runs on an image whose data bitmap has given out. The scan of get_free_item
\* finds no clear bit once the first BITMAP_WORDS * 32 bits are set; a file
\* holds FullBlocks blocks at most, so the shortest run that sets them makes
\* FullFiles files, here in directories of MaxFullEntries files each, and
\* grows each file through a handle of its own: open(ReadWrite),
\* set_position, write of one byte, close.
FullBlocks == DIRECT_BLOCK_COUNT + IDX_WORDS
FullFiles == (BITMAP_WORDS * 32) \div FullBlocks + 1
\* files the run puts in one directory
MaxFullEntries == 8
\* calls made in one run after the image was filled
MaxFullOps == 2
FullDirs == (FullFiles + MaxFullEntries - 1) \div MaxFullEntries
\* the k-th directory /a, /b, .. and the k-th file /a/a, /a/b, ..
FullDir(k) == <<<<96 + k>>>>
FullFile(k) == <<<<97 + ((k - 1) \div MaxFullEntries)>>, <<97 + ((k - 1) % MaxFullEntries)>>>>

\* mkdir of the directories from the k-th on, computed call by call
RECURSIVE MadeFrom(_, _, _)
MadeFrom(D, k, t) ==
    IF k > FullDirs THEN D
    ELSE Bind(vfs_mkdir(D, FullDir(k), t).D, LAMBDA D1 : MadeFrom(D1, k + 1, t))

\* create_file of the files k .. last, computed call by call
RECURSIVE CreatedIn(_, _, _, _)
CreatedIn(D, k, last, t) ==
    IF k > last THEN D
    ELSE Bind(vfs_create_file(D, FullFile(k), t).D, LAMBDA D1 : CreatedIn(D1, k + 1, last, t))

\* create_file of the files from the k-th on, one directory after the other
RECURSIVE CreatedFrom(_, _, _)
CreatedFrom(D, k, t) ==
    IF k > FullFiles THEN D
    ELSE Bind(CreatedIn(D, k, Min(k + MaxFullEntries - 1, FullFiles), t), LAMBDA D1 : CreatedFrom(D1, k + MaxFullEntries, t))

\* What open(ReadWrite), set_position(pos), write(<<1>>) and close leave of the
\* image, for an empty file at inum and pos beyond the direct blocks, on an
\* image whose set data bits are a prefix: update_access_time; then, in
\* extend_data_block_of_inode, the DIRECT_BLOCK_COUNT turns of the direct loop,
\* the reservation of the first free word and the turns of the indirect loop,
\* each turn taking the next free bit (the first is the number of bits set,
\* the set bits being a prefix); resize stores the size, write_data the byte,
\* update_modify_time the times. The turns are written down at once instead
\* of being taken one by one.
GrowFresh(D, inum, pos, t) ==
    Bind(pos \div 4096 + 1, LAMBDA n :
    Bind(Cardinality(D.db), LAMBDA base :
    Bind(get_free_block(D.ib, INDEX_BITMAP_BLOCK_COUNT, ALL_INDEX_BLOCK_RANGE), LAMBDA unit :
    Bind([a \in InodeBase(inum)..(InodeBase(inum) + 19) |->
              IF a \in DirectAddr(inum, 0)..DirectAddr(inum, DIRECT_BLOCK_COUNT - 1) THEN base + (a - DirectAddr(inum, 0))
              ELSE IF a = FieldAddr(inum, "block_indirect") THEN unit * 32
              ELSE IF a = FieldAddr(inum, "block_count") THEN n
              ELSE IF a = FieldAddr(inum, "size") THEN pos + 1
              ELSE IF a \in {FieldAddr(inum, "mtime"), FieldAddr(inum, "atime")} THEN t
              ELSE Get(D.iw, a)], LAMBDA inode :
    Bind([a \in IdxAddr(unit * 32, 0)..IdxAddr(unit * 32, n - DIRECT_BLOCK_COUNT - 1) |-> base + DIRECT_BLOCK_COUNT + (a - IdxAddr(unit * 32, 0))], LAMBDA table :
         [st |-> D.st,
          ib |-> set_block_state(D.ib, unit, TRUE),
          db |-> D.db \cup {BitPos(b) : b \in base..(base + n - 1)},
          iw |-> ([a \in {x \in DOMAIN inode : inode[x] # 0} |-> inode[a]] @@ table) @@ D.iw,
          dw |-> Put(D.dw, (base + n - 1) * BLOCK_BYTES + (pos % 4096), 1)])))))

\* the files k .. last grown, each to FullBlocks blocks or to the blocks the bitmap has left
RECURSIVE GrownIn(_, _, _, _)
GrownIn(D, k, last, t) ==
    IF k > last THEN D
    ELSE Bind(GrowFresh(D, get_inum_by_path(D, FullFile(k)).inum, Min(FullBlocks, BITMAP_WORDS * 32 - Cardinality(D.db)) * 4096 - 1, t), LAMBDA D1 :
              GrownIn(D1, k + 1, last, t))

\* the files from the k-th on grown, one directory after the other
RECURSIVE GrownFrom(_, _, _)
GrownFrom(D, k, t) ==
    IF k > FullFiles THEN D
    ELSE Bind(GrownIn(D, k, Min(k + MaxFullEntries - 1, FullFiles), t), LAMBDA D1 : GrownFrom(D1, k + MaxFullEntries, t))

\* the image the run leaves
Filled(t) ==
    Bind(init(t), LAMBDA D0 :
    Bind(MadeFrom(D0, 1, t), LAMBDA D1 :
    Bind(CreatedFrom(D1, 1, t), LAMBDA D2 : GrownFrom(D2, 1, t))))

\* the records of the handles of that run, all closed
FullRecords == [k \in 1..FullFiles |-> [path |-> to_str(FullFile(k)), mode |-> "ReadWrite", deleted |-> TRUE]]

\* init and the FullDirs + 4 * FullFiles calls of that run (set_position is not one), the last one the close of the last handle
Fill ==
    /\ status = "new"
    /\ \E D \in {Filled(clock)} : Commit(D)
    /\ entries' = FullRecords
    /\ rwmap' = update_state(FullRecords)
    /\ files' = <<>>
    /\ call' = [NoCall EXCEPT !.op = "close", !.path = FullFile(FullFiles), !.mode = "ReadWrite", !.id = FullFiles - 1]
    /\ ret' = [res |-> "Ok", val |-> <<>>]
    /\ nops' = FullDirs + 4 * FullFiles
    /\ UNCHANGED <<layout, checked, clock>>

\* a file of the run and a name the run has not used
FullPaths == {FullFile(1), <<<<120>>>>}
\* the end of a file of FullBlocks blocks
FullPosSet == {FullBlocks * 4096}

FullMkdir(path) == nops < FullDirs + 4 * FullFiles + MaxFullOps /\ mkdir_call(path)
FullCreateFile(path) == nops < FullDirs + 4 * FullFiles + MaxFullOps /\ create_file_call(path)
FullOpen(path, mode) == nops < FullDirs + 4 * FullFiles + MaxFullOps /\ Len(entries) < FullFiles + 1 /\ open_call(path, mode)
\* the caller writes at or past the end of the file
FullWrite(h, buf) ==
    /\ nops < FullDirs + 4 * FullFiles + MaxFullOps
    /\ h \in 1..Len(files)
    /\ files[h].position >= Field(i_blocks, get_inum_by_path(Disk, files[h].path).inum, "size")
    /\ write_call(h, buf)

NextFull ==
    \/ Fill
    \/ \E path \in FullPaths : FullMkdir(path)
    \/ \E path \in FullPaths : FullCreateFile(path)
    \/ \E path \in FullPaths, mode \in Modes : FullOpen(path, mode)
    \/ \E pos \in FullPosSet : SetPosition(1, pos)
    \/ FullWrite(1, <<1>>)

SpecFull == Init /\ [][NextFull]_vars

\* the allocator on its own. A run starts from one of two images: the one
\* test_extend_shrink_data_block sets up (every byte 0 but bit 0 of the inode
\* bitmap, so that inode 0 is an empty file and the data bitmap is empty), or
\* the one Fill leaves, whose data bitmap has its first BITMAP_WORDS * 32 bits
\* set. It then calls get_free_item and get_free_block with the ranges the
\* program calls them with, sets and clears bits, and grows and shrinks
\* inode 0 as the test does: up to
\* MaxFitOps calls on the first image, one call of get_free_item or
\* get_free_block on the second.
FitSetup ==
    /\ status = "new"
    /\ Commit([st |-> "ok", ib |-> {0}, db |-> {}, iw |-> EmptyMap, dw |-> EmptyMap])
    /\ call' = [NoCall EXCEPT !.op = "setup"]
    /\ ret' = [res |-> "Ok", val |-> <<>>]
    /\ UNCHANGED <<layout, checked, entries, rwmap, files, clock, nops>>

FitCounts == {3, DIRECT_BLOCK_COUNT, DIRECT_BLOCK_COUNT + 1, 20}
\* bit 0 of the inode bitmap is the inode that is grown: it stays set
FitIndexes(region) == IF region = "inode" THEN {1, 2, 32} ELSE {0, 1, 2, 32}

FitStep(D, c, res, val) ==
    /\ status = "ok" /\ nops < (IF entries = <<>> THEN MaxFitOps ELSE FullDirs + 4 * FullFiles + 1)
    /\ Commit(D) /\ Return(D, c, res, val)
    /\ UNCHANGED <<layout, checked, entries, rwmap, files, clock>>

FitFreeItem(region) ==
    \E i \in {get_free_item(RegionBitmap(Disk, region), RegionBlocks(region), RegionRange(region))} :
        IF i = -1 THEN FitStep(Fail(Disk, "panic"), BitCall("get_free_item", region, -1, FALSE), "none", <<>>)
        ELSE IF i = -2 THEN FitStep(Disk, BitCall("get_free_item", region, -1, FALSE), "None", <<>>)
        ELSE FitStep(Disk, BitCall("get_free_item", region, i, FALSE), "Some", <<i>>)

FitFreeBlock ==
    \E w \in {get_free_block(i_bitmaps, INDEX_BITMAP_BLOCK_COUNT, ALL_INDEX_BLOCK_RANGE)} :
        IF w = -1 THEN FitStep(Fail(Disk, "panic"), BitCall("get_free_block", "inode", -1, FALSE), "none", <<>>)
        ELSE IF w = -2 THEN FitStep(Disk, BitCall("get_free_block", "inode", -1, FALSE), "None", <<>>)
        ELSE FitStep(Disk, BitCall("get_free_block", "inode", w, FALSE), "Some", <<w>>)

FitSet(region, index, state) ==
    /\ entries = <<>>
    /\ \E bitmap \in {set_state(RegionBitmap(Disk, region), index, state)} :
           FitStep(WithBitmap(Disk, region, bitmap), BitCall("set_state", region, index, state), "Ok", <<>>)

FitExtend(count) ==
    /\ entries = <<>>
    /\ \E D \in {extend_data_block_of_inode(Disk, 0, count)} :
           FitStep(D, [NoCall EXCEPT !.op = "extend", !.id = 0, !.n = count], "Ok", <<>>)

FitShrink(count) ==
    /\ entries = <<>>
    /\ \E D \in {shrink_data_block_of_inode(Disk, 0, count)} :
           FitStep(D, [NoCall EXCEPT !.op = "shrink", !.id = 0, !.n = count], "Ok", <<>>)

NextFit ==
    \/ FitSetup
    \/ Fill
    \/ \E region \in Regions : FitFreeItem(region)
    \/ FitFreeBlock
    \/ \E region \in Regions : \E index \in FitIndexes(region), state \in BOOLEAN : FitSet(region, index, state)
    \/ \E count \in FitCounts : FitExtend(count)
    \/ \E count \in FitCounts : FitShrink(count)

SpecFit == Init /\ [][NextFit]_vars

---------------------------------------------------------------------------
(* Views of the state the properties are stated in *)

\* an API call has been made and has returned
Returned == status = "ok" /\ nops > 0 /\ ret.res # "none"

\* the inums whose inode-bitmap bit is set
AllocatedInums == {i \in i_bitmaps : i < ALL_INODE_RANGE}

\* the inums of the entries found below directory inum, at most d levels down;
\* a directory that cannot be read contributes nothing
RECURSIVE EntriesBelow(_, _, _)
EntriesBelow(D, inum, d) ==
    IF d = 0 \/ ~InodeInside(inum) \/ ~IsDir(D.iw, inum) THEN {}
    ELSE Bind(read_data_struct(D, inum, 0), LAMBDA dir :
         IF dir.st # "ok" THEN {}
         ELSE UNION {{dir.entries[k].inum} \cup EntriesBelow(D, dir.entries[k].inum, d - 1) : k \in 1..Len(dir.entries)})

\* the inums of the entries reachable from the root
Reachable == EntriesBelow(Disk, 0, MaxDepth + 1)

\* the blocks of an allocated inode, as (inum, logical block) pairs
Slots == UNION {{<<inum, i>> : i \in 0..(Min(Field(i_blocks, inum, "block_count"), DIRECT_BLOCK_COUNT + IDX_WORDS) - 1)} : inum \in AllocatedInums}

\* the data block a slot names; -1 when get_dnum cannot reach the slot
SlotDnum(s) == IF DnumAddr(i_blocks, s[1], s[2]) < 0 THEN -1 ELSE Get(i_blocks, DnumAddr(i_blocks, s[1], s[2]))

\* the allocated inodes that have an indirect table
Indirect == {inum \in AllocatedInums : Field(i_blocks, inum, "block_count") > DIRECT_BLOCK_COUNT}

\* the inums stored in index block b
InodesOfBlock(b) == (b * INODES_PER_BLOCK)..(b * INODES_PER_BLOCK + INODES_PER_BLOCK - 1)

\* the non-closed records of the open table on path p, and those that write
OpenOn(es, p) == {k \in 1..Len(es) : ~es[k].deleted /\ es[k].path = p}
WritersOn(es, p) == {k \in OpenOn(es, p) : es[k].mode \in Writing}
ReadersOn(es, p) == {k \in OpenOn(es, p) : es[k].mode = "Read"}
HasWriter(es, p) == WritersOn(es, p) # {}
PathsOpened == {entries[k].path : k \in 1..Len(entries)}

\* the four regions of the image
Image == <<i_bitmaps, d_bitmaps, i_blocks, d_blocks>>

\* the inum path resolves to on the image; -1 when it resolves to none
InumAt(path) == Bind(get_inode_by_path(Disk, path), LAMBDA r : IF r.st = "ok" THEN r.inum ELSE -1)

\* path resolves to a directory, to a regular file
DirAt(path) == Bind(InumAt(path), LAMBDA inum : inum >= 0 /\ IsDir(i_blocks, inum))
FileAt(path) == Bind(InumAt(path), LAMBDA inum : inum >= 0 /\ ~IsDir(i_blocks, inum))

\* the size of the inode path resolves to
SizeAt(path) == Field(i_blocks, InumAt(path), "size")

\* the record of the open table with this id is not closed
IsOpen(id) == id + 1 \in 1..Len(entries) /\ ~entries[id + 1].deleted

\* the non-closed records on path p that read
ReadingOn(es, p) == {k \in OpenOn(es, p) : es[k].mode \in {"Read", "ReadWrite"}}

\* the summary as a fold over the records: a path with a non-closed record
\* has bit 0 set when one of them reads and bit 1 when one of them writes
SummaryOf(es) ==
    [p \in {es[k].path : k \in {j \in 1..Len(es) : ~es[j].deleted}} |->
        (IF ReadingOn(es, p) # {} THEN 1 ELSE 0) + (IF WritersOn(es, p) # {} THEN 2 ELSE 0)]

\* the directories reachable from the root, at most d levels down, as inums
RECURSIVE DirsBelow(_, _, _)
DirsBelow(D, inum, d) ==
    IF ~InodeInside(inum) \/ ~IsDir(D.iw, inum) THEN {}
    ELSE IF d = 0 THEN {inum}
    ELSE Bind(read_data_struct(D, inum, 0), LAMBDA dir :
         IF dir.st # "ok" THEN {inum}
         ELSE {inum} \cup UNION {DirsBelow(D, dir.entries[k].inum, d - 1) : k \in 1..Len(dir.entries)})

\* no two entries of the list have the same name
Distinct(es) == \A i, j \in 1..Len(es) : i # j => es[i].name # es[j].name

\* byte k of the file inode inum, through the block mapping of the inode
FileByte(inum, k) ==
    Bind(DnumAddr(i_blocks, inum, k \div BLOCK_BYTES), LAMBDA addr :
         IF addr < 0 THEN -1 ELSE Get(d_blocks, Get(i_blocks, addr) * BLOCK_BYTES + (k % BLOCK_BYTES)))

\* the entries of the directory path resolves to
EntriesAt(path) == read_data_struct(Disk, InumAt(path), 0).entries

\* a segment of path before the last names a regular file
ThroughFile(path) == \E k \in 1..(Len(path) - 1) : FileAt(SubSeq(path, 1, k))

\* what rmdir and delete_file answer for path on the image, by its kind
DeleteAnswer(op, path) ==
    IF InumAt(path) < 0 THEN "PathNotFound"
    ELSE IF op = "delete_file" THEN (IF DirAt(path) THEN "InvalidFileType" ELSE "Ok")
    ELSE IF FileAt(path) \/ is_root(path) THEN "InvalidFileType"
    ELSE IF Len(EntriesAt(path)) > 0 THEN "DirIsNotEmpty"
    ELSE "Ok"

\* the step is the call op of the API
Calls(op) == nops' = nops + 1 /\ call'.op = op

\* GrowFresh is what the code does: a write of one byte beyond the direct
\* blocks of an empty file, made call by call, leaves the image GrowFresh
\* writes down (checked under SpecRW, where such writes are made)
GrowFreshAgrees ==
    [][Calls("write") /\ call'.buf = <<1>> /\ call'.pos >= DIRECT_BLOCK_COUNT * 4096 /\ FileAt(call'.path) /\ SizeAt(call'.path) = 0 /\ ret'.res = "Ok" =>
           \E D \in {GrowFresh(Disk, InumAt(call'.path), call'.pos, clock)} : Image' = <<D.ib, D.db, D.iw, D.dw>>]_vars

---------------------------------------------------------------------------
(* Properties *)

\* C1: after every API call the inums whose inode-bitmap bit is set are
\* exactly 0 and the inums of the entries reachable from the root.
C1_BitmapConsistency == Returned => AllocatedInums = {0} \cup Reachable

\* C2: after every API call every data block named by a slot of an allocated
\* inode has its data-bitmap bit set, and every set data-bitmap bit is named
\* by exactly one slot of exactly one allocated inode.
C2_BlockOwnership ==
    Returned =>
        /\ \A inum \in AllocatedInums : Field(i_blocks, inum, "block_count") <= DIRECT_BLOCK_COUNT + IDX_WORDS
        /\ \E named \in {[s \in Slots |-> SlotDnum(s)]} :
               /\ \A s \in DOMAIN named : named[s] >= 0 /\ named[s] < DATA_BLOCK_COUNT /\ get_state(d_bitmaps, named[s])
               /\ \A b \in d_bitmaps : Cardinality({s \in DOMAIN named : named[s] = b}) = 1

\* C3: an index block that an inode uses as its indirect table (the block
\* get_indirect_dnum indexes: inode_blocks[block_indirect]) stores no
\* allocated inode, and no two inodes use the same one.
C3_IndirectNotInodeStorage ==
    status = "ok" =>
        /\ \A inum \in Indirect : InodesOfBlock(Field(i_blocks, inum, "block_indirect")) \cap AllocatedInums = {}
        /\ \A x, y \in Indirect : x # y => Field(i_blocks, x, "block_indirect") # Field(i_blocks, y, "block_indirect")

\* C4: for every path at most one non-closed record of the open table has
\* mode Write or ReadWrite, and an open in mode Read is never refused for
\* the handles already open: it returns Ok when the path exists and
\* FileNotExist when it does not.
C4_SingleWriter ==
    /\ \A p \in PathsOpened : Cardinality(WritersOn(entries, p)) <= 1
    /\ (Returned /\ call.op = "open" /\ call.mode = "Read") =>
           ret.res = IF exists(Disk, call.path) THEN "Ok" ELSE "FileNotExist"

\* an open in mode Read has succeeded on a path on which a writer and
\* another reader are open
C4_Witness ==
    /\ Returned /\ call.op = "open" /\ call.mode = "Read" /\ ret.res = "Ok"
    /\ HasWriter(entries, to_str(call.path))
    /\ Cardinality(ReadersOn(entries, to_str(call.path))) >= 2

\* C5: an open in mode Write or ReadWrite of an existing path fails with
\* FileCannotWrite when a non-closed Write/ReadWrite record is on that path,
\* and succeeds when none is, whatever was opened and closed before: so it
\* succeeds as soon as the writer is closed.
C5_WriterBlocksUntilClosed ==
    [][(nops' = nops + 1 /\ call'.op = "open" /\ call'.mode \in Writing /\ exists(Disk, call'.path)) =>
           /\ HasWriter(entries, to_str(call'.path)) => ret'.res = "FileCannotWrite" /\ entries' = entries
           /\ ~HasWriter(entries, to_str(call'.path)) => ret'.res = "Ok" /\ Len(entries') = Len(entries) + 1]_vars

\* a writing open has succeeded on a path whose earlier writer is closed,
\* with a reader opened in between still open
C5_Witness ==
    /\ Returned /\ call.op = "open" /\ call.mode \in Writing /\ ret.res = "Ok" /\ ~is_root(call.path)
    /\ \E k \in 1..Len(entries) : entries[k].deleted /\ entries[k].path = to_str(call.path) /\ entries[k].mode \in Writing
    /\ ReadersOn(entries, to_str(call.path)) # {}

\* C6 as stated: no path has at once a non-closed read-only record and a
\* non-closed Write or ReadWrite record.
C6_ReadersWritersExclusive == \A p \in PathsOpened : ReadersOn(entries, p) = {} \/ WritersOn(entries, p) = {}

\* C6, amended: open refuses only a writing open, and only for a writer: the
\* summary of a path denies writing exactly when a non-closed Write/ReadWrite
\* record is on the path (readers never count), and FileCannotWrite is
\* returned only to an open in mode Write/ReadWrite of a path with such a record.
C6_OnlyWritersExclude ==
    /\ \A p \in PathsOpened : can_write(rwmap, p) <=> ~HasWriter(entries, p)
    /\ (Returned /\ ret.res = "FileCannotWrite") =>
           call.op = "open" /\ call.mode \in Writing /\ HasWriter(entries, to_str(call.path))

\* a writing open succeeds on a path on which a reader is open
C6_Witness ==
    /\ Returned /\ call.op = "open" /\ call.mode \in Writing /\ ret.res = "Ok"
    /\ ReadersOn(entries, to_str(call.path)) # {}
    /\ entries[Len(entries)].mode \in Writing /\ ~entries[Len(entries)].deleted

\* what a read of Len(call.buf) bytes at call.pos through the handle of the last call returns now
ReadBack == vfs_read(Disk, entries, [path |-> call.path, mode |-> call.mode, position |-> call.pos, id |-> call.id], Len(call.buf), clock)

\* C7: after a write of B at position p through a ReadWrite handle has
\* returned Ok, a read of |B| bytes at p returns B.
C7_ReadAfterWrite ==
    (Returned /\ call.op = "write" /\ call.mode = "ReadWrite" /\ ret.res = "Ok") =>
        \E r \in {ReadBack} : r.D.st = "ok" /\ r.res = "Ok" /\ r.bytes = call.buf

\* C8: after every API call every allocated inode has block_count equal to
\* the ceiling of size / 4096 (so block_count = 0 exactly when size = 0).
C8_SizeCount ==
    Returned => \A inum \in AllocatedInums : Field(i_blocks, inum, "block_count") = (Field(i_blocks, inum, "size") + 4095) \div 4096

\* C9: after every API call an allocated inode with block_count > 12 has
\* block_indirect # 0 and the inode-bitmap word of the unit it names all
\* ones; an allocated inode with block_count <= 12 has block_indirect = 0.
C9_IndirectReserved ==
    Returned => \A inum \in AllocatedInums :
        IF Field(i_blocks, inum, "block_count") > DIRECT_BLOCK_COUNT
        THEN /\ Field(i_blocks, inum, "block_indirect") # 0
             /\ InodesOfBlock(Field(i_blocks, inum, "block_indirect") \div INODES_PER_BLOCK) \subseteq i_bitmaps
        ELSE Field(i_blocks, inum, "block_indirect") = 0

\* C10: after every API call every entry of every reachable directory names
\* an inum whose inode-bitmap bit is set, and inode 0 is allocated and a directory.
C10_EntriesAllocated == Returned => Reachable \subseteq AllocatedInums /\ 0 \in AllocatedInums /\ IsDir(i_blocks, 0)

\* C11 (what it concludes): after every call the names of the entries of
\* each directory reachable from the root are pairwise distinct.
C11_NamesDistinct ==
    Returned => \A inum \in DirsBelow(Disk, 0, MaxDepth) :
        \E dir \in {read_data_struct(Disk, inum, 0)} : dir.st = "ok" => Distinct(dir.entries)

C13_DirectoryIO ==
    [][((Calls("read") /\ call'.mode # "Write") \/ (Calls("write") /\ call'.mode \in Writing)) /\ IsOpen(call'.id) /\ DirAt(call'.path) =>
           status' = "ok" /\ ret'.res = "InvalidFileType" /\ Image' = Image]_vars

\* the scan of the data bitmap finds no clear bit: every bit it can address is set
DataGivenOut == \A i \in 0..(BITMAP_WORDS * 32 - 1) : i \in d_bitmaps

\* the call the step makes needs a data block: a mkdir of a new name in a
\* directory, or a write through an open writing handle that ends beyond the
\* blocks its file has
NeedsBlock ==
    \/ /\ Calls("mkdir")
       /\ ~is_root(call'.path) /\ DirAt(parent(call'.path)) /\ InumAt(call'.path) < 0
    \/ /\ Calls("write")
       /\ IsOpen(call'.id) /\ call'.mode \in Writing /\ FileAt(call'.path)
       /\ (call'.pos + Len(call'.buf) + 4095) \div 4096 > Field(i_blocks, InumAt(call'.path), "block_count")

\* C14: a mkdir or a write that needs a data block when the allocator finds
\* none free returns the error NoSpace; it does not terminate abnormally.
C14_NoSpace ==
    [][DataGivenOut /\ NeedsBlock => status' = "ok" /\ ret'.res = "NoSpace"]_vars

\* C15: exists returns Ok with a boolean, true exactly when the path
\* resolves, and changes nothing in the image but the access time of the
\* inode the path resolves to.
C15_ExistsAnswers ==
    [][Calls("exists") =>
           /\ status' = "ok" /\ ret'.res = "Ok" /\ ret'.val = <<exists(Disk, call'.path)>>
           /\ i_bitmaps' = i_bitmaps /\ d_bitmaps' = d_bitmaps /\ d_blocks' = d_blocks
           /\ i_blocks' = IF exists(Disk, call'.path)
                          THEN Put(i_blocks, FieldAddr(InumAt(call'.path), "atime"), Get(i_blocks', FieldAddr(InumAt(call'.path), "atime")))
                          ELSE i_blocks]_vars

\* C16: a read through an open Write handle and a write through an open Read
\* handle, on a regular file, return AccessError; no byte is returned, and
\* the handles and the image are unchanged.
C16_AccessError ==
    [][((Calls("read") /\ call'.mode = "Write") \/ (Calls("write") /\ call'.mode = "Read")) /\ IsOpen(call'.id) /\ FileAt(call'.path) =>
           /\ status' = "ok" /\ ret'.res = "AccessError"
           /\ ret'.val = (IF call'.op = "read" THEN <<>> ELSE <<0>>)
           /\ files' = files /\ Image' = Image]_vars

C19_WriteResizes ==
    [][Calls("write") /\ call'.mode \in Writing /\ IsOpen(call'.id) /\ FileAt(call'.path) =>
           /\ status' = "ok" /\ ret'.res = "Ok" /\ ret'.val = <<Len(call'.buf)>>
           /\ \A h \in 1..Len(files') : files'[h].id = call'.id => files'[h].position = call'.pos + Len(call'.buf)
           /\ FileAt(call.path)' /\ SizeAt(call.path)' = call'.pos + Len(call'.buf)
           /\ read_file(Disk, call.path, call.pos, Len(call.buf))' = [st |-> "ok", res |-> "Ok", bytes |-> call'.buf]]_vars

\* C20: a read of n bytes through an open Read or ReadWrite handle at a
\* position p <= size of a regular file returns Ok with the bytes
\* [p, p + min(n, size - p)) of the file, advances the position of the handle
\* by their number, and changes nothing in the image but the access time of
\* the inode.
C20_ReadBytes ==
    [][Calls("read") /\ call'.mode # "Write" /\ IsOpen(call'.id) /\ FileAt(call'.path) /\ call'.pos <= SizeAt(call'.path) =>
           \E inum \in {InumAt(call'.path)}, len \in {Min(call'.n, SizeAt(call'.path) - call'.pos)} :
               /\ status' = "ok" /\ ret'.res = "Ok"
               /\ ret'.val = [k \in 1..len |-> FileByte(inum, call'.pos + k - 1)]
               /\ \A h \in 1..Len(files) : files'[h].position = files[h].position + (IF files[h].id = call'.id THEN len ELSE 0)
               /\ i_bitmaps' = i_bitmaps /\ d_bitmaps' = d_bitmaps /\ d_blocks' = d_blocks
               /\ i_blocks' = Put(i_blocks, FieldAddr(inum, "atime"), Get(i_blocks', FieldAddr(inum, "atime")))]_vars

\* the list es without its k-th entry
RemoveAt(es, k) == SubSeq(es, 1, k - 1) \o SubSeq(es, k + 1, Len(es))

\* the position of the first entry of es named name, 0 if none
IndexOf(es, name) ==
    IF ~DirExists(es, name) THEN 0
    ELSE CHOOSE k \in 1..Len(es) : es[k].name = name /\ \A j \in 1..(k - 1) : es[j].name # name

\* C21: a successful mkdir or create_file allocates one new inode (a
\* directory with no entry, or a regular file of size 0) and appends its
\* entry to the list of the parent; a successful rmdir or delete_file takes
\* the entry of the object out of the list of its parent and keeps the others
\* in their order; the list of every other directory stays as it was.
C21_EntryOrder ==
    [][(Calls("mkdir") \/ Calls("create_file") \/ Calls("rmdir") \/ Calls("delete_file")) /\ ret'.res = "Ok" =>
           \E before \in {EntriesAt(parent(call'.path))}, after \in {EntriesAt(parent(call.path))'} :
               /\ IF call'.op \in {"mkdir", "create_file"}
                  THEN \E new \in AllocatedInums' \ AllocatedInums :
                           /\ AllocatedInums' = AllocatedInums \cup {new}
                           /\ after = Append(before, [name |-> current(call'.path), inum |-> new])
                           /\ IF call'.op = "mkdir"
                              THEN IsDir(i_blocks', new) /\ read_data_struct(Disk, new, 0)' = [st |-> "ok", entries |-> <<>>]
                              ELSE ~IsDir(i_blocks', new) /\ Field(i_blocks', new, "size") = 0
                  ELSE after = RemoveAt(before, IndexOf(before, current(call'.path)))
               /\ \A d \in DirsBelow(Disk, 0, 2) \ {InumAt(parent(call'.path)), InumAt(call'.path)} :
                      read_data_struct(Disk, d, 0)' = read_data_struct(Disk, d, 0)]_vars

\* the second of three entries of the root has been removed, the first and
\* the third are left in their order
C21_Witness ==
    /\ Returned /\ call.op \in {"rmdir", "delete_file"} /\ ret.res = "Ok"
    /\ Len(EntriesAt(Root)) = 2 /\ EntriesAt(Root)[1].name = <<97>> /\ EntriesAt(Root)[2].name = <<99>>

\* C22: the id an open returns is the number of records made before it, and
\* every record made is returned, so that the k-th open has id k; the record
\* is put after the others, which keep their places, so that no id comes back
\* after a close; a close changes nothing of any other record, and of its own
\* record the closed flag only.
C22_StableIds ==
    [][/\ Calls("open") /\ ret'.res = "Ok" =>
              /\ call'.id = Len(entries)
              /\ entries' = Append(entries, [path |-> to_str(call'.path), mode |-> call'.mode, deleted |-> FALSE])
       /\ Calls("open") /\ ret'.res # "Ok" => entries' = entries
       /\ Calls("close") =>
              /\ Len(entries') = Len(entries)
              /\ \A k \in 1..Len(entries) :
                     /\ entries'[k].path = entries[k].path /\ entries'[k].mode = entries[k].mode
                     /\ k # call'.id + 1 => entries'[k].deleted = entries[k].deleted
       /\ ~Calls("open") /\ ~Calls("close") => entries' = entries]_vars

\* the third open, made after the first handle was closed, has id 2 and the
\* closed record is still the first
C22_Witness ==
    /\ Returned /\ call.op = "open" /\ ret.res = "Ok" /\ call.id = 2
    /\ Len(entries) = 3 /\ entries[1].deleted /\ ~entries[2].deleted /\ ~entries[3].deleted

\* a text that starts with '/' and is "/" or has, after the first '/', no
\* empty piece between two '/' (none at its end, no two '/' in a row) and no
\* forbidden character in a piece
WellFormed(s) ==
    /\ Len(s) > 0 /\ s[1] = 47
    /\ Len(s) = 1 \/
         /\ s[Len(s)] # 47
         /\ \A k \in 1..(Len(s) - 1) : ~(s[k] = 47 /\ s[k + 1] = 47)
         /\ \A k \in 2..Len(s) : s[k] = 47 \/ s[k] \notin Forbidden

\* C23: from_str gives a path for the well-formed texts and for no other; the
\* path it gives renders as the text it was given; a path built from valid
\* segments renders as a text that parses as that path.
C23_PathRoundTrip ==
    /\ call.op = "from_str" => (ret.res = "Some" <=> WellFormed(call.buf))
    /\ call.op = "to_str" => ret.val = call.buf
    /\ call.op = "parsed" => ret.res = "Some" /\ ret.val = call.path

\* the text /a/a has been parsed into two segments and rendered
C23_Witness == call.op = "to_str" /\ call.buf = <<47, 97, 47, 97>> /\ call.path = <<<<97>>, <<97>>>> /\ ret.val = call.buf

\* the list a mkdir or rmdir that returned Ok has written into the root: the
\* list before with the new entry at its end, or without the entry of the name
Written ==
    IF call'.op = "mkdir"
    THEN Append(EntriesAt(Root), [name |-> current(call'.path), inum |-> CHOOSE new \in AllocatedInums' \ AllocatedInums : TRUE])
    ELSE RemoveAt(EntriesAt(Root), IndexOf(EntriesAt(Root), current(call'.path)))

\* C24: after a list of entries is written into a directory, the directory
\* reads as that list, the size of its inode is 4 more than the length of
\* the encoding and its first four bytes hold that length, whether the
\* encoding is longer or shorter than the one stored before.
C24_WriteThenRead ==
    [][(Calls("mkdir") \/ Calls("rmdir")) /\ Len(call'.path) = 1 /\ ret'.res = "Ok" =>
           \E es \in {Written} :
               /\ read_data_struct(Disk, 0, 0)' = [st |-> "ok", entries |-> es]
               /\ Field(i_blocks', 0, "size") = 4 + Len(to_vec(es))
               /\ read_data(Disk, 0, 0, 4)' = [st |-> "ok", bytes |-> to_le_bytes(Len(to_vec(es)))]]_vars

\* the bits of the inode bitmap that stand for index block u: word u, bits 32u to 32u + 31
UnitBits(u) == {32 * u + b : b \in 0..31}

\* the number of blocks a resize to new_size asks for
BlocksFor(new_size) == (new_size + 4095) \div 4096

\* C25: a growth to at most 12 blocks reserves nothing and leaves
\* block_indirect 0; a growth of an inode without indirect block to 13 blocks
\* or more reserves one free unit of the inode bitmap, all 32 bits of its
\* word, and leaves block_indirect non-zero, from every block count up to
\* and including 12.
C25_GrowReserves ==
    [][Calls("resize") /\ status' = "ok"
         /\ Field(i_blocks, call'.id, "block_count") <= DIRECT_BLOCK_COUNT
         /\ Field(i_blocks, call'.id, "block_indirect") = 0
         /\ BlocksFor(call'.pos) > Field(i_blocks, call'.id, "block_count") =>
           IF BlocksFor(call'.pos) <= DIRECT_BLOCK_COUNT
           THEN Field(i_blocks', call'.id, "block_indirect") = 0 /\ i_bitmaps' = i_bitmaps
           ELSE /\ Field(i_blocks', call'.id, "block_indirect") # 0
                /\ i_bitmaps \subseteq i_bitmaps'
                /\ \E u \in {x \div 32 : x \in i_bitmaps' \ i_bitmaps} :
                       UnitBits(u) \cap i_bitmaps = {} /\ i_bitmaps' = i_bitmaps \cup UnitBits(u)]_vars

\* C26: a shrink from more than 12 blocks to 12 or fewer leaves
\* block_indirect 0 and the word of the inode bitmap that was reserved for
\* the unit all zero, and changes no other word of the inode bitmap.
C26_ShrinkReleases ==
    [][Calls("resize") /\ status' = "ok"
         /\ Field(i_blocks, call'.id, "block_count") > DIRECT_BLOCK_COUNT
         /\ Field(i_blocks, call'.id, "block_indirect") # 0
         /\ BlocksFor(call'.pos) <= DIRECT_BLOCK_COUNT =>
           /\ Field(i_blocks', call'.id, "block_indirect") = 0
           /\ i_bitmaps' = i_bitmaps \ UnitBits(Field(i_blocks, call'.id, "block_indirect") \div 32)]_vars

\* the data blocks the slots of inode inum name
BlocksOf(inum) == {SlotDnum(<<inum, i>>) : i \in 0..(Field(i_blocks, inum, "block_count") - 1)}

\* the words of the index region that hold the fields of inode inum
InodeWords(inum) == InodeBase(inum)..(InodeBase(inum) + INODE_WORDS - 1)

\* C27: free_inode clears the data bit of every block the inode names, the
\* whole word of the inode bitmap of its indirect unit, the slot of the
\* inode and the bit of the inode; no other bit of the two bitmaps changes.
C27_FreeReleasesAll ==
    [][Calls("delete_file") /\ ret'.res = "Ok" =>
           \E inum \in {InumAt(call'.path)}, indirect \in {Field(i_blocks, InumAt(call'.path), "block_indirect")} :
               /\ d_bitmaps' = d_bitmaps \ BlocksOf(inum)
               /\ i_bitmaps' = (i_bitmaps \ {inum}) \ (IF indirect # 0 THEN UnitBits(indirect \div 32) ELSE {})
               /\ \A a \in InodeWords(inum) : Get(i_blocks', a) = 0]_vars

\* C28: the unit a growth reserves and the table it fills are the same index
\* block: when unit u is reserved, block_indirect is 32u and the numbers of
\* the blocks from the 13th on are the first words of index block u.
C28_TableIsUnit ==
    [][Calls("resize") /\ status' = "ok"
         /\ Field(i_blocks, call'.id, "block_count") < DIRECT_BLOCK_COUNT
         /\ Field(i_blocks, call'.id, "block_indirect") = 0
         /\ BlocksFor(call'.pos) > DIRECT_BLOCK_COUNT =>
           \E u \in {x \div 32 : x \in i_bitmaps' \ i_bitmaps} :
               /\ i_bitmaps' = i_bitmaps \cup UnitBits(u)
               /\ Field(i_blocks', call'.id, "block_indirect") = 32 * u
               /\ \A k \in DIRECT_BLOCK_COUNT..(BlocksFor(call'.pos) - 1) :
                      /\ Get(i_blocks', IdxAddr(u, k - DIRECT_BLOCK_COUNT)) \in d_bitmaps' \ d_bitmaps
                      /\ Get(i_blocks', IdxAddr(u, k - DIRECT_BLOCK_COUNT)) = SlotDnum(<<call.id, k>>)']_vars

\* where the bit and the word of an index lie, as the layout of the bitmap
\* region has them: 32768 bits and 1024 words to a bitmap block
SpecBitBlock(i) == i \div (BITMAP_WORDS * 32)
SpecBitWord(i) == (i \div 32) % BITMAP_WORDS
SpecBitPos(i) == (SpecBitBlock(i) * BITMAP_WORDS + SpecBitWord(i)) * 32 + (i % 32)
SpecWordBits(w) == {((w \div BITMAP_WORDS) * BITMAP_WORDS + (w % BITMAP_WORDS)) * 32 + b : b \in 0..31}

\* the bitmap of a region after the step
BitmapAfter(region) == IF region = "inode" THEN i_bitmaps' ELSE d_bitmaps'

\* C29: for every index i of the allocator range of a region, get_state and
\* set_state address bitmap block i div 32768, word (i div 32) mod 1024, bit
\* i mod 32, a location inside the region (the call returns): get_state
\* returns that bit, set_state(i, b) makes that bit b, so that get_state(i)
\* is b afterwards, and changes no other bit of either bitmap.
C29_BitAddressing ==
    [][/\ (Calls("get_state") /\ status = "ok" /\ call'.id < RegionRange(call'.mode)) =>
              /\ status' = "ok"
              /\ SpecBitBlock(call'.id) < RegionBlocks(call'.mode)
              /\ ret'.val = <<IF SpecBitPos(call'.id) \in RegionBitmap(Disk, call'.mode) THEN 1 ELSE 0>>
              /\ i_bitmaps' = i_bitmaps /\ d_bitmaps' = d_bitmaps
       /\ (Calls("set_state") /\ status = "ok" /\ call'.id < RegionRange(call'.mode)) =>
              /\ status' = "ok"
              /\ SpecBitBlock(call'.id) < RegionBlocks(call'.mode)
              /\ BitmapAfter(call'.mode) =
                     IF call'.n = 1 THEN RegionBitmap(Disk, call'.mode) \cup {SpecBitPos(call'.id)}
                     ELSE RegionBitmap(Disk, call'.mode) \ {SpecBitPos(call'.id)}
              /\ get_state(BitmapAfter(call'.mode), call'.id) = (call'.n = 1)
              /\ call'.mode = "inode" => d_bitmaps' = d_bitmaps
              /\ call'.mode = "data" => i_bitmaps' = i_bitmaps
      ]_vars

\* C30: for every unit index w below INDEX_BLOCK_COUNT, get_block_state and
\* set_block_state address the word made of the bits 32w .. 32w+31 as
\* get_state sees them (bitmap block w div 1024, word w mod 1024), a location
\* inside the inode bitmap (the call returns); get_free_block returns w only
\* if get_state is false for all 32 of those bits, and set_block_state(w, true)
\* makes get_state true for all of them.
C30_WordAddressing ==
    [][/\ (Calls("get_block_state") /\ status = "ok" /\ call'.id < ALL_INDEX_BLOCK_RANGE) =>
              /\ status' = "ok"
              /\ ret'.val = WordValue(i_bitmaps \cap SpecWordBits(call'.id), call'.id)
              /\ i_bitmaps' = i_bitmaps
       /\ (Calls("set_block_state") /\ status = "ok" /\ call'.id < ALL_INDEX_BLOCK_RANGE) =>
              /\ status' = "ok"
              /\ i_bitmaps' = IF call'.n = 1 THEN i_bitmaps \cup SpecWordBits(call'.id) ELSE i_bitmaps \ SpecWordBits(call'.id)
              /\ call'.n = 1 => \A b \in 0..31 : get_state(i_bitmaps', 32 * call'.id + b)
       /\ (Calls("get_free_block") /\ status = "ok" /\ ret'.res = "Some") =>
              \A b \in 0..31 : ~get_state(i_bitmaps, 32 * call'.id + b)
      ]_vars

\* the bits of the summary of a path; a path the map does not hold has none
ReadBit(map, path) == path \in DOMAIN map /\ map[path] % 2 = 1
WriteBit(map, path) == path \in DOMAIN map /\ (map[path] \div 2) % 2 = 1
\* the records of a path that are not closed and have one of the modes
OpenWith(path, modes) == {k \in 1..Len(entries) : ~entries[k].deleted /\ entries[k].path = path /\ entries[k].mode \in modes}

FirstClear(bitmap) == CHOOSE i \in 0..Cardinality(bitmap) : i \notin bitmap /\ \A j \in 0..(i - 1) : j \in bitmap
\* the smallest word that is 0
FirstZeroWord(bitmap) ==
    Bind({x \div 32 : x \in bitmap}, LAMBDA words :
         CHOOSE w \in 0..Cardinality(words) : w \notin words /\ \A j \in 0..(w - 1) : j \in words)

\* C32: first fit: get_free_item over the range of a region returns the
\* smallest index of the range whose bit is clear, and None iff every bit of
\* the range is set; get_free_block does the same for the words that are 0;
\* hence a grow of an empty inode to N blocks on an image whose data bitmap
\* is empty puts the data blocks 0, 1, .., N-1 in the slots 0 .. N-1.
C32_FirstFit ==
    [][/\ (Calls("get_free_item") /\ status = "ok") =>
              /\ status' = "ok"
              /\ ret' = IF FirstClear(RegionBitmap(Disk, call'.mode)) < RegionRange(call'.mode)
                        THEN [res |-> "Some", val |-> <<FirstClear(RegionBitmap(Disk, call'.mode))>>]
                        ELSE [res |-> "None", val |-> <<>>]
       /\ (Calls("get_free_block") /\ status = "ok") =>
              /\ status' = "ok"
              /\ ret' = IF FirstZeroWord(i_bitmaps) < ALL_INDEX_BLOCK_RANGE
                        THEN [res |-> "Some", val |-> <<FirstZeroWord(i_bitmaps)>>]
                        ELSE [res |-> "None", val |-> <<>>]
       /\ (Calls("extend") /\ status = "ok" /\ d_bitmaps = {}) =>
              /\ status' = "ok"
              /\ Field(i_blocks, 0, "block_count")' = call'.n
              /\ \A i \in 0..(DIRECT_BLOCK_COUNT + IDX_WORDS) : i < call'.n => SlotDnum(<<0, i>>)' = i
              /\ d_bitmaps' = 0..(call'.n - 1)
      ]_vars

\* what the lookup of logical block i of an inode answers: block_direct[i],
\* or entry i - 12 of the index block that block_indirect names
LookupAnswer(inum, i) ==
    IF i < DIRECT_BLOCK_COUNT THEN Get(i_blocks, InodeBase(inum) + Off("block_direct") + i)
    ELSE Get(i_blocks, Field(i_blocks, inum, "block_indirect") * IDX_WORDS + (i - DIRECT_BLOCK_COUNT))

\* C33: for an inode with block_count c, get_dnum(i) with i < c answers
\* block_direct[i] when i < 12 and entry i - 12 of the inode's indirect table
\* when 12 <= i < 12 + 1024; transform_pos(p) answers (the lookup of p div
\* 4096, p mod 4096); an index i >= c or i >= 12 + 1024 ends the call
\* abnormally and is never answered with a block number. The lookup changes
\* nothing of the image.
C33_Lookup ==
    [][/\ (Calls("get_dnum") /\ status = "ok") =>
              IF call'.pos < Field(i_blocks, call'.id, "block_count") /\ call'.pos < DIRECT_BLOCK_COUNT + IDX_WORDS
              THEN status' = "ok" /\ ret'.val = <<LookupAnswer(call'.id, call'.pos)>> /\ Image' = Image
              ELSE status' = "panic" /\ ret' = NoRet
       /\ (Calls("transform_pos") /\ status = "ok") =>
              IF call'.pos \div 4096 < Field(i_blocks, call'.id, "block_count") /\ call'.pos \div 4096 < DIRECT_BLOCK_COUNT + IDX_WORDS
              THEN status' = "ok" /\ ret'.val = <<LookupAnswer(call'.id, call'.pos \div 4096), call'.pos % 4096>> /\ Image' = Image
              ELSE status' = "panic" /\ ret' = NoRet
      ]_vars

\* /a has been grown from nothing to 13 blocks on the image init leaves,
\* where the root holds data block 0: the lookup of its logical block 12,
\* the first of the indirect table, has answered data block 13
C33_Witness ==
    /\ call.op = "get_dnum" /\ call.id = 1 /\ call.pos = DIRECT_BLOCK_COUNT
    /\ status = "ok" /\ ret.val = <<13>>
    /\ Field(i_blocks, 1, "block_count") = DIRECT_BLOCK_COUNT + 1
    /\ Field(i_blocks, 1, "block_indirect") # 0

\* the number of blocks the call asks for: the count given to
\* extend_data_block_of_inode or shrink_data_block_of_inode, or the blocks
\* of the size given to resize
AskedBlocks(c) == IF c.op = "resize" THEN BlocksFor(c.pos) ELSE c.n
Resizes == (Calls("extend") \/ Calls("shrink") \/ Calls("resize")) /\ status = "ok" /\ status' = "ok"
\* the data blocks the slots from..(to - 1) of inode inum name
BlocksIn(inum, from, to) == {SlotDnum(<<inum, i>>) : i \in from..(to - 1)}

\* the blocks the slots old_count .. N - 1 of the inode of the call name after the call
NewBlocks == {SlotDnum(<<call.id, i>>)' : i \in Field(i_blocks, call'.id, "block_count")..(AskedBlocks(call') - 1)}

\* C34: a grow of an inode from old_count to N blocks leaves the numbers in
\* the slots below old_count as they were, clears no data bit, and gives the
\* new slots N - old_count distinct blocks that were free before, whose bits
\* are the bits it sets; a shrink to N blocks leaves the slots below N as
\* they were, clears the data bits of exactly the blocks in the slots N ..
\* old_count - 1 and zeroes those slots; neither changes a data bit of a
\* block that a slot of another allocated inode names.
C34_RetainedMapping ==
    [][Resizes =>
         /\ (call'.op # "shrink" /\ AskedBlocks(call') > Field(i_blocks, call'.id, "block_count")) =>
                /\ \A i \in 0..(DIRECT_BLOCK_COUNT + IDX_WORDS) :
                       i < Field(i_blocks, call'.id, "block_count") => SlotDnum(<<call.id, i>>)' = SlotDnum(<<call'.id, i>>)
                /\ NewBlocks \cap d_bitmaps = {}
                /\ Cardinality(NewBlocks) = AskedBlocks(call') - Field(i_blocks, call'.id, "block_count")
                /\ d_bitmaps' = d_bitmaps \cup NewBlocks
         /\ (call'.op # "extend" /\ AskedBlocks(call') < Field(i_blocks, call'.id, "block_count")) =>
                /\ \A i \in 0..(DIRECT_BLOCK_COUNT + IDX_WORDS) :
                       i < AskedBlocks(call') => SlotDnum(<<call.id, i>>)' = SlotDnum(<<call'.id, i>>)
                /\ d_bitmaps' = d_bitmaps \ BlocksIn(call'.id, AskedBlocks(call'), Field(i_blocks, call'.id, "block_count"))
                /\ \A i \in AskedBlocks(call')..(Field(i_blocks, call'.id, "block_count") - 1) :
                       Get(i_blocks', DnumAddr(i_blocks, call'.id, i)) = 0
         /\ \A m \in AllocatedInums \ {call'.id} :
                \A b \in BlocksOf(m) : (b \in d_bitmaps') = (b \in d_bitmaps)
      ]_vars

\* the bytes of block `index` that belong to a file of `size` bytes: 4096 for
\* every block but the one that holds the last byte
UsableInBlock(size, index) == IF index = (size - 1) \div BLOCK_BYTES THEN ((size - 1) % BLOCK_BYTES) + 1 ELSE BLOCK_BYTES

Copies == Calls("read_data") \/ Calls("write_data")
\* the call c asks for bytes of the file as it is before the call
InContract(c) == c.pos + c.n <= Field(i_blocks, c.id, "size")
\* the turns the loop of the call takes on the image it is made on
TurnsOfCall(c) == WriteTurns(Disk, c.id, c.pos, c.n, 0, <<>>)
TurnInBounds(c, size, turn) ==
    /\ turn.len >= 1
    /\ turn.len <= Min(c.n - turn.written, UsableInBlock(size, (c.pos + turn.written) \div BLOCK_BYTES) - ((c.pos + turn.written) % BLOCK_BYTES))
Copied(chunks) == IF chunks = <<>> THEN 0 ELSE chunks[Len(chunks)].written + chunks[Len(chunks)].len

\* C35: a read_data or write_data of L bytes at p with p + L <= size ends
\* normally after turns that each copy at least 1 byte and at most
\* min(bytes left, usable bytes of the block - offset), L bytes in all
C35_CopyTerminates ==
    [][Copies /\ InContract(call') =>
         /\ status' = "ok"
         /\ TurnsOfCall(call').st = "ok"
         /\ \A k \in 1..Len(TurnsOfCall(call').chunks) : TurnInBounds(call', Field(i_blocks, call'.id, "size"), TurnsOfCall(call').chunks[k])
         /\ Copied(TurnsOfCall(call').chunks) = call'.n
         /\ call'.op = "read_data" => Len(ret'.val) = call'.n
      ]_vars

\* C36: a read_data or write_data of L >= 1 bytes at p with p + L > size
\* ends abnormally at once: it does not return and does not loop for ever
C36_OutOfContractStops ==
    [][Copies /\ call'.n >= 1 /\ ~InContract(call') => status' = "panic"]_vars

\* what a call on another file must leave of inode inum: its size, kind,
\* block_count, block slots and bytes
InodeView(inum) ==
    [size |-> Field(i_blocks, inum, "size"), is_dir |-> IsDir(i_blocks, inum), block_count |-> Field(i_blocks, inum, "block_count"),
     slots |-> [i \in 0..(Field(i_blocks, inum, "block_count") - 1) |-> SlotDnum(<<inum, i>>)],
     content |-> [k \in 0..(Field(i_blocks, inum, "size") - 1) |-> FileByte(inum, k)]]

\* C37: a write through a handle that returns Ok leaves every allocated
\* inode but the one of the handle's file as it was (size, is_dir,
\* block_count, slots, bytes), allocated and with the bits of its blocks set
C37_WriteIsolated ==
    [][Calls("write") /\ status' = "ok" /\ ret'.res = "Ok" =>
         \A m \in AllocatedInums \ {InumAt(call'.path)} :
             /\ InodeView(m)' = InodeView(m)
             /\ m \in i_bitmaps'
             /\ \A b \in BlocksOf(m) : (b \in d_bitmaps') = (b \in d_bitmaps)
      ]_vars

\* the calls of the API that resolve the path they are given
Resolving == {"mkdir", "create_file", "open", "exists", "list", "delete_file", "rmdir"}

\* C38: a call that resolves a path in which a segment before the last
\* names a regular file returns an error and leaves the image as it was
C38_ThroughFileIsError ==
    [][(\E op \in Resolving : Calls(op)) /\ ThroughFile(call'.path) =>
         /\ status' = "ok"
         /\ ret'.res \notin {"Ok", "none"}
         /\ Image' = Image
      ]_vars

\* C39: a read through an open Read or ReadWrite handle whose position is
\* greater than the size of its file returns, with an error or with no
\* byte, and leaves the positions and the image as they were
C39_ReadBeyondEnd ==
    [][Calls("read") /\ call'.mode # "Write" /\ IsOpen(call'.id) /\ FileAt(call'.path) /\ call'.pos > SizeAt(call'.path) =>
         /\ status' = "ok"
         /\ ret'.res # "Ok" \/ ret'.val = <<>>
         /\ files' = files
         /\ Image' = Image
      ]_vars

\* C40: the path of every handle that is not closed resolves to an
\* allocated inode that is a regular file
C40_HandlesLive ==
    status = "ok" =>
        \A h \in 1..Len(files) :
            IsOpen(files[h].id) => FileAt(files[h].path) /\ InumAt(files[h].path) \in AllocatedInums

=============================================================================
